---- MODULE Spec2Model ----
(***************************************************************************)
(* Review normalization, indexing and filtered retrieval of the Liquide    *)
(* review agent (src/liquide/services): ReviewEmbeddingService,            *)
(* QdrantService and SearchReviewService, as a state machine over the one  *)
(* vector collection.                                                      *)
(*                                                                         *)
(* Python values are modelled as follows.                                  *)
(*  - None is the marker NONE; a str is a TLA+ string; str.lower() and     *)
(*    str.strip() are the tables Lower and Strip over the strings that     *)
(*    occur in the model.                                                  *)
(*  - A date string is a record [fmt, day, sec]: its encoding, the         *)
(*    calendar day it names (days since 1970-01-01) and the second of the  *)
(*    day (only the ISO-8601 "Z" encoding carries one).                    *)
(*  - A datetime is a record [ok, wall, aware]: wall-clock seconds since   *)
(*    1970-01-01T00:00:00 and whether tzinfo is set (UTC) or the value is  *)
(*    naive.  Comparing a naive with an aware datetime raises TypeError.   *)
(*  - An exception is the field raised of a result, "" when none.          *)
(***************************************************************************)
EXTENDS Integers, Sequences, FiniteSets, TLC

\* points:     the collection, numeric point id -> payload
\* utcoffset:  the local zone of the process, seconds east of UTC
\* out:        what the last call returned or raised, with its arguments
\* collection: whether the named collection exists in the index, and the
\*             vector configuration it was created with
\* pc:         the position of each coroutine that is suspended at an await
\* jobs:       LiveIngestBackgroundService._jobs, job id -> job
\* clock:      the last value returned by time.time()
\* singleton:  the class attributes of DatabaseSingleton
\* service:    PostgresDBService._initialized
\* conversations: the rows of the conversation_history table
VARIABLES points, utcoffset, out, collection, pc, jobs, clock, singleton, service,
          conversations

vars ==
  <<points, utcoffset, out, collection, pc, jobs, clock, singleton, service,
    conversations>>

\* the job registry, and the database layer
jobvars == <<jobs, clock>>

dbvars == <<singleton, service, conversations>>

----------------------------------------------------------------------------
(* Python values *)

NONE == "<None>"

Truthy(s) == s # NONE /\ s # ""

PyOr(a, b) == IF Truthy(a) THEN a ELSE b

Lower(s) ==
  CASE s = "iOS" -> "ios"
    [] s = "IOS" -> "ios"
    [] s = " iOS " -> " ios "
    [] s = "Android" -> "android"
    [] s = "Windows" -> "windows"
    [] s = "India" -> "india"
    [] s = "V1" -> "v1"
    [] s = "V2" -> "v2"
    [] s = "V3" -> "v3"
    [] s = "Beta" -> "beta"
    [] s = NONE -> "none"
    [] OTHER -> s

Strip(s) ==
  CASE s = " iOS " -> "iOS"
    [] s = " ios " -> "ios"
    [] s = " " -> ""
    [] s = " v2 " -> "v2"
    [] s = " India " -> "India"
    [] s = " Great app " -> "Great app"
    [] OTHER -> s

SecondsPerDay == 24 * 60 * 60

Some(v) == [some |-> TRUE, v |-> v]

Null == [some |-> FALSE, v |-> 0]

----------------------------------------------------------------------------
(* Date strings and datetimes *)

DateStr(f, d, s) == [fmt |-> f, day |-> d, sec |-> s]

NoDateStr == DateStr("none", 0, 0)

EmptyDateStr == DateStr("empty", 0, 0)

GarbageDateStr == DateStr("garbage", 0, 0)

DateTruthy(v) == v.fmt \notin {"none", "empty"}

DateOr(a, b) == IF DateTruthy(a) THEN a ELSE b

NoDt == [ok |-> FALSE, wall |-> 0, aware |-> FALSE]

Dt(w, a) == [ok |-> TRUE, wall |-> w, aware |-> a]

\* The four parsers of the tuple, in the order they are tried.
\* 1: datetime.fromisoformat(v.replace("Z", "+00:00")) accepts the ISO "Z"
\*    encoding (aware) and also a bare YYYY-MM-DD, for which it returns a
\*    naive datetime; 2..4: strptime(...).replace(tzinfo=UTC).
ParserAccepts(i, v) ==
  CASE i = 1 -> v.fmt \in {"isoZ", "ymd"}
    [] i = 2 -> v.fmt = "BdY"
    [] i = 3 -> v.fmt = "dBY"
    [] i = 4 -> v.fmt = "ymd"

ParserResult(i, v) ==
  CASE i = 1 -> Dt(v.day * SecondsPerDay + v.sec, v.fmt = "isoZ")
    [] OTHER -> Dt(v.day * SecondsPerDay, TRUE)

NumParsers == 4

RECURSIVE TryParsers(_, _)
TryParsers(i, v) ==
  IF i > NumParsers THEN NoDt
  ELSE IF ParserAccepts(i, v) THEN ParserResult(i, v)
  ELSE TryParsers(i + 1, v)

_parse_any_date(v) == IF ~DateTruthy(v) THEN NoDt ELSE TryParsers(1, v)

_parse_date(v) == IF ~DateTruthy(v) THEN NoDt ELSE TryParsers(1, v)

\* datetime.timestamp(): an aware (UTC) value is its own epoch second; a
\* naive value is read as local time, utcoffset seconds east of UTC.
Timestamp(dt, off) == IF dt.aware THEN dt.wall ELSE dt.wall - off

\* dt.strftime("%Y-%m-%d")
Strftime(dt) == DateStr("ymd", dt.wall \div SecondsPerDay, 0)

\* a < b, a > b, a >= b on datetimes raise TypeError when exactly one is naive.
CmpRaises(a, b) == a.aware # b.aware

----------------------------------------------------------------------------
(* Raw reviews *)

\* A raw review: every key the code reads.  NONE / NoDateStr stand for an
\* absent key (or a None value).  rating is [kind, tenths]: absent ("none"),
\* a number or a numeric string (its value in tenths), or a non-numeric
\* string ("badstr").  author is absent, an object with a name, or a string.
\* A logical id: a source id "r<n>" or the derived "review-<digest>".
NoId == [tag |-> "", n |-> 0]

IdOf(i) == [tag |-> "r", n |-> i]

IdTruthy(v) == v.tag # ""

NoRating == [kind |-> "none", tenths |-> 0]

Num(t) == [kind |-> "num", tenths |-> t]

NumStr(t) == [kind |-> "str", tenths |-> t]

BadStr == [kind |-> "badstr", tenths |-> 0]

NoAuthor == [kind |-> "none", name |-> NONE]

AuthorObj(n) == [kind |-> "dict", name |-> n]

AuthorStr(n) == [kind |-> "str", name |-> n]

BlankRaw ==
  [id |-> NoId, title |-> NONE, author |-> NoAuthor, snippet |-> NONE,
   text |-> NONE, rating |-> NoRating, iso_date |-> NoDateStr,
   date |-> NoDateStr, review_date |-> NoDateStr, version |-> NONE,
   device |-> NONE, country |-> NONE]

----------------------------------------------------------------------------
(* hashlib.md5: a deterministic content hash.  The digest cannot be computed
   here; it is a fixed numbering of the strings that occur in the model,
   without collisions among them. *)

MaxIds == 14


TitleTab == <<"", "A", "B", "Bob", "Unknown">>

TextTab == <<"", "Great app", " Great app ", "Bad app", "LONG_700">>

Idx(tab, x) == CHOOSE i \in 1..Len(tab) : tab[i] = x

FmtCode(f) ==
  CASE f = "none" -> 0 [] f = "empty" -> 0 [] f = "garbage" -> 1
    [] f = "isoZ" -> 2 [] f = "BdY" -> 3 [] f = "dBY" -> 4 [] f = "ymd" -> 5

\* the digest of f"{title}|{text}|{date}", as a number
Md5Triple(title, text, date) ==
  ((Idx(TitleTab, title) * 8 + Idx(TextTab, text)) * 8 + FmtCode(date.fmt)) * 4
    + (date.sec % 4) + 1024 * (date.day % 1000)

\* hexdigest()[:12] of the triple, rendered with the literal tag
DerivedId(title, text, date) == [tag |-> "review-", n |-> Md5Triple(title, text, date)]

_stable_review_id(item) ==
  DerivedId(PyOr(item.title, ""),
            PyOr(PyOr(item.snippet, item.text), ""),
            DateOr(DateOr(item.date, item.review_date), EmptyDateStr))

\* int(hexdigest()[:15], 16) of a logical id
Md5Int(value) == IF value.tag = "r" THEN value.n ELSE MaxIds + 1 + value.n

----------------------------------------------------------------------------
(* ReviewEmbeddingService: normalization *)

max_document_chars == 600

\* 2025-10-04 and 2025-05-25 as days since 1970-01-01
V3Day == 20365

V2Day == 20233

v3_start == Dt(V3Day * SecondsPerDay, TRUE)

v2_start == Dt(V2Day * SecondsPerDay, TRUE)

TextLen(s) ==
  CASE s = "LONG_700" -> 700
    [] s = "LONG_600" -> 600
    [] s = "" -> 0
    [] s = " Great app " -> 11
    [] s = "Great app" -> 9
    [] OTHER -> 7

\* s[:n] for the one text of the model longer than n
Prefix(s, n) == IF s = "LONG_700" /\ n = 600 THEN "LONG_600" ELSE s

\* int(x): truncation toward zero, x given in tenths
IntTrunc(t) == IF t >= 0 THEN t \div 10 ELSE -((-t) \div 10)

Max(a, b) == IF a >= b THEN a ELSE b

Min(a, b) == IF a <= b THEN a ELSE b

\* int(float(item.get("rating") or 0)); float() of a non-numeric string raises
RatingRaises(r) == r.kind = "badstr"

\* rounding to the nearest integer instead of truncating
RatingRounded(r) == IF r.kind = "none" THEN 0 ELSE (r.tenths + 5) \div 10

RatingInt(r) == IF r.kind = "none" THEN 0 ELSE IntTrunc(r.tenths)

\* the version derived from the date, lines 81-89; the first comparison
\* against the aware v3_start raises when dt is naive
VersionRaises(dt) == dt.ok /\ CmpRaises(dt, v3_start)

VersionOf(dt) ==
  IF dt.ok
  THEN IF dt.wall >= v3_start.wall THEN "v3"
       ELSE IF dt.wall >= v2_start.wall THEN "v2" ELSE "v1"
  ELSE "v1"

\* (item.get("author") or {}).get("name"): a non-empty str has no .get
AuthorRaises(a) == a.kind = "str" /\ Truthy(a.name)

AuthorName(a) == IF a.kind = "dict" THEN a.name ELSE NONE

NormalizedOf(item, off) ==
  LET dt == _parse_any_date(DateOr(DateOr(item.iso_date, item.date), item.review_date))
      rating_val == Max(1, Min(5, RatingInt(item.rating)))
      stripped == Strip(PyOr(PyOr(item.snippet, item.text), ""))
      review_text == IF TextLen(stripped) > max_document_chars
                     THEN Strip(Prefix(stripped, max_document_chars))
                     ELSE stripped
      raw_version == Lower(Strip(PyOr(item.version, "")))
      explicit == raw_version \in {"v1", "v2", "v3"}
      raised == IF RatingRaises(item.rating) THEN "ValueError"
                ELSE IF ~explicit /\ VersionRaises(dt) THEN "TypeError"
                ELSE IF ~Truthy(item.title) /\ AuthorRaises(item.author)
                     THEN "AttributeError"
                ELSE ""
  IN  [raised |-> raised,
       id |-> IF raised # "" THEN NoId
              ELSE IF IdTruthy(item.id) THEN item.id ELSE _stable_review_id(item),
       title |-> IF raised # "" THEN ""
                 ELSE PyOr(PyOr(item.title, AuthorName(item.author)), "Unknown"),
       rating |-> rating_val,
       date |-> IF dt.ok /\ raised = "" THEN Strftime(dt) ELSE EmptyDateStr,
       date_ts |-> IF dt.ok /\ raised = "" THEN Some(Timestamp(dt, off)) ELSE Null,
       version |-> IF explicit THEN raw_version
                   ELSE IF raised = "" THEN VersionOf(dt) ELSE "v1",
       device |-> PyOr(item.device, "Android"),
       country |-> PyOr(item.country, "India"),
       review_text |-> review_text]

_normalize_review_record(item, off) == NormalizedOf(item, off)

----------------------------------------------------------------------------
(* ReviewEmbeddingService: payload to (ids, documents, metadatas) *)

\* A payload: a bare list ("list"), an object with a reviews list
\* ("reviews"), an object with google_play / apple lists ("dict", an absent
\* one of the two being an empty list), an object with none of the three
\* keys ("object"), or a value that is neither list nor object ("scalar").
ListPayload(items) ==
  [kind |-> "list", items |-> items, google_play |-> <<>>, apple |-> <<>>]

ReviewsPayload(items) ==
  [kind |-> "reviews", items |-> items, google_play |-> <<>>, apple |-> <<>>]

StoresPayload(g, a) ==
  [kind |-> "dict", items |-> <<>>, google_play |-> g, apple |-> a]

ScalarPayload ==
  [kind |-> "scalar", items |-> <<>>, google_play |-> <<>>, apple |-> <<>>]

ObjectPayload ==
  [kind |-> "object", items |-> <<>>, google_play |-> <<>>, apple |-> <<>>]

ExtractRaises(payload) == payload.kind = "scalar"

_extract_raw_reviews(payload) ==
  IF payload.kind \in {"list", "reviews"} THEN payload.items
  ELSE payload.google_play \o payload.apple

process_raw_reviews(raw_reviews, off) ==
  [i \in DOMAIN raw_reviews |-> _normalize_review_record(raw_reviews[i], off)]

\* the exception of the first record whose normalization raises, "" if none
RECURSIVE FirstRaised(_, _)
FirstRaised(processed, i) ==
  IF i > Len(processed) THEN ""
  ELSE IF processed[i].raised # "" THEN processed[i].raised
  ELSE FirstRaised(processed, i + 1)

MetadataOf(review) ==
  [id |-> review.id, title |-> review.title, rating |-> review.rating,
   date |-> review.date, date_ts |-> review.date_ts, version |-> review.version,
   device |-> Lower(review.device), country |-> Lower(review.country)]

create_documents_and_metadata(processed) ==
  [ids |-> [i \in DOMAIN processed |-> processed[i].id],
   documents |-> [i \in DOMAIN processed |-> processed[i].review_text],
   metadatas |-> [i \in DOMAIN processed |-> MetadataOf(processed[i])]]

----------------------------------------------------------------------------
(* QdrantService *)

\* a numeric id taken from a running count instead of the digest
PointIdSerial(value) == Md5Int(value) + Cardinality(DOMAIN points)

_point_id(value) == Md5Int(value)

\* payload = metadata plus the text under "document"
PointPayload(meta, doc) ==
  [id |-> meta.id, title |-> meta.title, rating |-> meta.rating,
   date |-> meta.date, date_ts |-> meta.date_ts, version |-> meta.version,
   device |-> meta.device, country |-> meta.country, document |-> doc]

\* the loop of add_embeddings reads metadatas[i] and documents[i] for every
\* i in range(len(ids)): IndexError when either is shorter than ids
AddRaises(ids, documents, metadatas) ==
  Len(ids) > 0 /\ (Len(documents) < Len(ids) \/ Len(metadatas) < Len(ids))

\* client.upsert: a point replaces the stored point of the same numeric id;
\* of two points of one batch with the same id the later one stays
UpsertPoints(pts, ids, documents, metadatas) ==
  LET pid(i) == _point_id(ids[i])
      last(k) == CHOOSE i \in DOMAIN ids :
                   /\ pid(i) = k
                   /\ \A j \in DOMAIN ids : pid(j) = k => j <= i
  IN  [k \in DOMAIN pts \cup {pid(i) : i \in DOMAIN ids} |->
         IF \E i \in DOMAIN ids : pid(i) = k
         THEN PointPayload(metadatas[last(k)], documents[last(k)])
         ELSE pts[k]]

add_embeddings(pts, ids, documents, metadatas) ==
  IF Len(ids) = 0 THEN pts ELSE UpsertPoints(pts, ids, documents, metadatas)

\* get_points(limit).total_docs: the collection's point count
TotalDocs(pts) == Cardinality(DOMAIN pts)

\* Python truthiness of an Optional[int]: None and 0 are both false
OptTruthy(o) == o.some /\ o.v # 0

Cond(key, kind, any, value, gte, lte) ==
  [key |-> key, kind |-> kind, any |-> any, value |-> value, gte |-> gte, lte |-> lte]

SeqToSet(q) == {q[i] : i \in DOMAIN q}

\* [x for x in q if int(x) in [1, 2, 3, 4, 5]]
CleanRatings(q) == SelectSeq(q, LAMBDA r : r \in 1..5)

\* The filter, [none, must]: none is TRUE for "no filter" (None).
build_filter(device, rating_values, country, version, start_ts, end_ts) ==
  LET clean == CleanRatings(rating_values)
      normalized_device == IF Truthy(device) THEN Lower(Strip(device)) ELSE ""
      normalized_country == IF Truthy(country) THEN Lower(Strip(country)) ELSE ""
      normalized_version == IF Truthy(version) THEN Lower(Strip(version)) ELSE ""
      must ==
        (IF Len(rating_values) > 0 /\ Len(clean) > 0
         THEN <<Cond("rating", "any", SeqToSet(clean), "", Null, Null)>> ELSE <<>>)
        \o (IF normalized_device # ""
            THEN <<Cond("device", "value", {}, normalized_device, Null, Null)>> ELSE <<>>)
        \o (IF normalized_country # ""
            THEN <<Cond("country", "value", {}, normalized_country, Null, Null)>> ELSE <<>>)
        \o (IF normalized_version # ""
            THEN <<Cond("version", "value", {}, normalized_version, Null, Null)>> ELSE <<>>)
        \o (IF OptTruthy(start_ts) \/ OptTruthy(end_ts)
            THEN <<Cond("date_ts", "range", {}, "", start_ts, end_ts)>> ELSE <<>>)
  IN  [none |-> Len(must) = 0, must |-> must]

\* the index engine's test of one condition on a stored payload: MatchAny,
\* MatchValue (exact) and Range (inclusive; a null field never matches)
Matches(payload, c) ==
  CASE c.kind = "any" -> payload.rating \in c.any
    [] c.kind = "value" ->
         (CASE c.key = "device" -> payload.device = c.value
            [] c.key = "country" -> payload.country = c.value
            [] c.key = "version" -> payload.version = c.value)
    [] c.kind = "range" ->
         /\ payload.date_ts.some
         /\ c.gte.some => payload.date_ts.v >= c.gte.v
         /\ c.lte.some => payload.date_ts.v <= c.lte.v

\* should (any clause) instead of must (every clause)
MatchesShould(payload, f) ==
  f.none \/ \E i \in DOMAIN f.must : Matches(payload, f.must[i])

MatchesFilter(payload, f) == \A i \in DOMAIN f.must : Matches(payload, f.must[i])

\* The relevance order of the index engine for a question: the embedding is
\* outside the program, so the order is one of two fixed orders of the
\* stored point ids, chosen by the question.
RECURSIVE Ranked(_, _)
Ranked(S, question) ==
  IF S = {} THEN <<>>
  ELSE LET m == IF question = "good app"
                THEN CHOOSE x \in S : \A y \in S : x <= y
                ELSE CHOOSE x \in S : \A y \in S : x >= y
       IN  <<m>> \o Ranked(S \ {m}, question)

FirstN(q, n) == IF Len(q) <= n THEN q ELSE SubSeq(q, 1, n)

\* QdrantService.query: the hits, in relevance order, at most n_results
QdrantQuery(pts, query_text, n_results, filters) ==
  LET hits == {k \in DOMAIN pts : MatchesFilter(pts[k], filters)}
      order == FirstN(Ranked(hits, query_text), n_results)
  IN  [i \in DOMAIN order |->
         [pid |-> order[i], id |-> pts[order[i]].id,
          document |-> pts[order[i]].document, metadata |-> pts[order[i]]]]

----------------------------------------------------------------------------
(* SearchReviewService *)

result_limit == 12

EvidenceCap == 12

EndOfDay == 86399

\* _is_date_in_range raises TypeError when the parsed stored date is
\* compared with a bound of the other awareness
InRangeRaises(value, start_dt, end_dt) ==
  LET dt == _parse_date(value)
  IN  /\ start_dt.ok \/ end_dt.ok
      /\ dt.ok
      /\ \/ start_dt.ok /\ CmpRaises(dt, start_dt)
         \/ /\ ~(start_dt.ok /\ dt.wall < start_dt.wall)
            /\ end_dt.ok /\ CmpRaises(dt, end_dt)

\* the lower bound is not tested
InRangeNoStartTest(value, start_dt, end_dt) ==
  LET dt == _parse_date(value)
  IN  IF ~start_dt.ok /\ ~end_dt.ok THEN TRUE
      ELSE IF ~dt.ok THEN FALSE
      ELSE IF end_dt.ok /\ dt.wall > end_dt.wall THEN FALSE
      ELSE TRUE

_is_date_in_range(value, start_dt, end_dt) ==
  LET dt == _parse_date(value)
  IN  IF ~start_dt.ok /\ ~end_dt.ok THEN TRUE
      ELSE IF ~dt.ok THEN FALSE
      ELSE IF start_dt.ok /\ dt.wall < start_dt.wall THEN FALSE
      ELSE IF end_dt.ok /\ dt.wall > end_dt.wall THEN FALSE
      ELSE TRUE

EvidenceItem(r) ==
  [text |-> r.document,
   metadata |-> [id |-> IF IdTruthy(r.metadata.id) THEN r.metadata.id ELSE r.id,
                 rating |-> r.metadata.rating, date |-> r.metadata.date,
                 version |-> r.metadata.version, device |-> r.metadata.device,
                 country |-> r.metadata.country]]

\* each kept item is put in front of the list instead of at its end
RECURSIVE SecondPassPrepending(_, _, _, _, _, _)
SecondPassPrepending(results, i, start_dt, end_dt, docs, kept) ==
  IF i > Len(results) THEN [raised |-> "", docs |-> docs, kept |-> kept]
  ELSE IF InRangeRaises(results[i].metadata.date, start_dt, end_dt)
       THEN [raised |-> "TypeError", docs |-> <<>>, kept |-> <<>>]
  ELSE IF ~_is_date_in_range(results[i].metadata.date, start_dt, end_dt)
       THEN SecondPassPrepending(results, i + 1, start_dt, end_dt, docs, kept)
  ELSE IF Len(docs) + 1 >= EvidenceCap
       THEN [raised |-> "", docs |-> <<EvidenceItem(results[i])>> \o docs,
             kept |-> <<i>> \o kept]
  ELSE SecondPassPrepending(results, i + 1, start_dt, end_dt,
                            <<EvidenceItem(results[i])>> \o docs, <<i>> \o kept)

\* the loop of lines 109-130 from index i on: [raised, docs, kept], kept
\* being the positions of the index results that were appended
RECURSIVE SecondPass(_, _, _, _, _, _)
SecondPass(results, i, start_dt, end_dt, docs, kept) ==
  IF i > Len(results) THEN [raised |-> "", docs |-> docs, kept |-> kept]
  ELSE IF InRangeRaises(results[i].metadata.date, start_dt, end_dt)
       THEN [raised |-> "TypeError", docs |-> <<>>, kept |-> <<>>]
  ELSE IF ~_is_date_in_range(results[i].metadata.date, start_dt, end_dt)
       THEN SecondPass(results, i + 1, start_dt, end_dt, docs, kept)
  ELSE IF Len(docs) + 1 >= EvidenceCap
       THEN [raised |-> "", docs |-> Append(docs, EvidenceItem(results[i])),
             kept |-> Append(kept, i)]
  ELSE SecondPass(results, i + 1, start_dt, end_dt,
                  Append(docs, EvidenceItem(results[i])), Append(kept, i))

NoRatingArg == [some |-> FALSE, v |-> <<>>]

Args(q, sd, ed, dev, rt, c, ver, mm) ==
  [question |-> q, start_date |-> sd, end_date |-> ed, device |-> dev,
   rating |-> rt, country |-> c, version |-> ver, mobile_model |-> mm]

\* applied_filters["qdrant_filter"]: the keys present and their values
AppliedFilters(a, normalized_device, rating_values, normalized_country, normalized_version) ==
  [keys |-> (IF DateTruthy(a.start_date) THEN {"start_date"} ELSE {})
              \cup (IF DateTruthy(a.end_date) THEN {"end_date"} ELSE {})
              \cup (IF normalized_device # "" THEN {"device"} ELSE {})
              \cup (IF Len(rating_values) > 0 THEN {"rating"} ELSE {})
              \cup (IF normalized_country # "" THEN {"country"} ELSE {})
              \cup (IF normalized_version # "" THEN {"version"} ELSE {}),
   start_date |-> a.start_date,
   end_date |-> a.end_date,
   device |-> IF normalized_device = "ios" THEN "iOS" ELSE "Android",
   rating |-> rating_values,
   country |-> normalized_country,
   version |-> normalized_version]

\* SearchReviewService.query on the collection pts; adapter_ok is whether
\* the adapter's call (embedding the question, the index search) succeeds
SearchQuery(pts, a, off, adapter_ok) ==
  LET start_dt == _parse_date(a.start_date)
      end_dt == _parse_date(a.end_date)
      start_ts == IF start_dt.ok THEN Some(Timestamp(start_dt, off)) ELSE Null
      end_ts == IF end_dt.ok THEN Some(Timestamp(end_dt, off) + EndOfDay) ELSE Null
      normalized_device == IF Truthy(a.device) THEN Lower(a.device) ELSE ""
      normalized_country == IF Truthy(a.country) THEN Lower(Strip(a.country)) ELSE ""
      normalized_version == IF Truthy(a.version) THEN Lower(Strip(a.version)) ELSE ""
      rating_values == IF a.rating.some THEN CleanRatings(a.rating.v) ELSE <<>>
      effective_device == IF normalized_device = "ios" THEN "iOS" ELSE "Android"
      notes == IF Truthy(a.mobile_model)
               THEN <<[about |-> "mobile_model", used_device |-> effective_device]>>
               ELSE <<>>
      applied == AppliedFilters(a, normalized_device, rating_values,
                                normalized_country, normalized_version)
      qdrant_filter == build_filter(normalized_device, rating_values,
                                    normalized_country, normalized_version,
                                    start_ts, end_ts)
      results == QdrantQuery(pts, a.question, result_limit, qdrant_filter)
      pass == SecondPass(results, 1, start_dt, end_dt, <<>>, <<>>)
  IN  IF ~adapter_ok
      THEN [op |-> "query", raised |-> "AdapterError", args |-> a, adapter_ok |-> FALSE]
      ELSE IF pass.raised # ""
      THEN [op |-> "query", raised |-> pass.raised, args |-> a, adapter_ok |-> TRUE]
      ELSE [op |-> "query", raised |-> "", args |-> a, adapter_ok |-> TRUE,
            retrieved_documents |-> pass.docs,
            applied_filters |-> applied, notes |-> notes,
            qdrant_filter |-> qdrant_filter,
            results |-> [i \in DOMAIN results |-> results[i].pid],
            kept |-> pass.kept]

----------------------------------------------------------------------------
(* ReviewEmbeddingService: ingestion *)

\* index_reviews after the pipeline of ingest_reviews_from_payload:
\* [raised, points, ids, pids, inserted, total_docs]
ingest_reviews_from_payload(pts, payload, off, adapter_ok) ==
  LET raw_reviews == _extract_raw_reviews(payload)
      processed == process_raw_reviews(raw_reviews, off)
      dm == create_documents_and_metadata(processed)
      pids == [i \in DOMAIN dm.ids |-> _point_id(dm.ids[i])]
      after == add_embeddings(pts, dm.ids, dm.documents, dm.metadatas)
      failed(e) == [raised |-> e, points |-> pts, ids |-> <<>>, pids |-> <<>>,
                    inserted |-> 0, total_docs |-> 0]
  IN  IF ExtractRaises(payload) THEN failed("ValueError")
      ELSE IF FirstRaised(processed, 1) # "" THEN failed(FirstRaised(processed, 1))
      ELSE IF ~adapter_ok THEN failed("AdapterError")
      ELSE IF AddRaises(dm.ids, dm.documents, dm.metadatas) THEN failed("IndexError")
      ELSE [raised |-> "", points |-> after, ids |-> dm.ids, pids |-> pids,
            inserted |-> Len(dm.ids), total_docs |-> TotalDocs(after)]

----------------------------------------------------------------------------
(* The state machine *)

LocalOffsets == {0, 19800}

NoPoints == [k \in {} |-> 0]

\* len(embed_query("liquide review")) of the embedding model in use
VectorSize == 3

\* QdrantService.__init__ has run _initialize_collection
CollectionCreated == [exists |-> TRUE, size |-> VectorSize, distance |-> "Cosine"]

NoCollection == [exists |-> FALSE, size |-> 0, distance |-> ""]

\* the coroutines: one administrative call and two callers
Procs == {"admin", "a", "b"}

Idle == [at |-> "idle"]

NoJobs == [j \in {} |-> 0]

\* DatabaseSingleton: _pool (0 is None), _initialized, the holder of _lock,
\* and the number of pools create_pool has returned (a pool is known by its
\* number)
NoPool == 0

SingletonUnset == [pool |-> NoPool, initialized |-> FALSE, lock |-> "", created |-> 0]

Init ==
  /\ points = NoPoints
  /\ utcoffset \in LocalOffsets
  /\ out = [op |-> "init", raised |-> ""]
  /\ collection = CollectionCreated
  /\ pc = [p \in Procs |-> Idle]
  /\ jobs = NoJobs
  /\ clock = 0
  /\ singleton = SingletonUnset
  /\ service = [initialized |-> FALSE]
  /\ conversations = <<>>

\* ingest_reviews_from_payload(payload).  again / before_* record whether
\* the call just before was a successful ingestion of the same payload, and
\* what that call reported.
Ingest(payload, adapter_ok) ==
  LET r == ingest_reviews_from_payload(points, payload, utcoffset, adapter_ok)
      again == out.op = "ingest" /\ out.raised = "" /\ out.payload = payload
  IN  /\ points' = r.points
      /\ out' = [op |-> "ingest", raised |-> r.raised, payload |-> payload,
                 adapter_ok |-> adapter_ok,
                 ids |-> r.ids, pids |-> r.pids, inserted |-> r.inserted,
                 total_docs |-> r.total_docs,
                 again |-> again /\ r.raised = "",
                 before_ids |-> IF again THEN out.ids ELSE <<>>,
                 before_pids |-> IF again THEN out.pids ELSE <<>>,
                 before_total |-> IF again THEN out.total_docs ELSE 0]
      /\ UNCHANGED <<utcoffset, collection, pc, jobvars, dbvars>>

\* clear_collection: delete the collection, then _initialize_collection
Clear ==
  /\ points' = NoPoints
  /\ out' = [op |-> "clear", raised |-> ""]
  /\ UNCHANGED <<utcoffset, collection, pc, jobvars, dbvars>>

Query(a, adapter_ok) ==
  /\ out' = SearchQuery(points, a, utcoffset, adapter_ok)
  /\ UNCHANGED <<points, utcoffset, collection, pc, jobvars, dbvars>>

----------------------------------------------------------------------------
(* Inputs *)

MaxBatch == 1

MaxDocs == 2

BatchesOf(S, n) == UNION {[1..k -> S] : k \in 0..n}

Questions == {"good app", "bad app"}

\* a query that supplies no filter (the defaults of the signature)
NoFilterArgs(q) == Args(q, EmptyDateStr, EmptyDateStr, "", NoRatingArg, "", "", "")

\* 2025-11-01
ExampleDay == V3Day + 28

\* the review of the end-to-end example: title, snippet, rating "5" and a
\* bare YYYY-MM-DD date; no id, version, device or country
RawExample ==
  [BlankRaw EXCEPT !.title = "A", !.snippet = "Great app",
                   !.rating = NumStr(50), !.date = DateStr("ymd", ExampleDay, 0)]

\* the same review without a source id (dated with an offset, by month
\* name, or undated), with a source id (a bare date and an explicit version,
\* or dated with an offset), and as the example gives it
RawsIngest ==
  {[RawExample EXCEPT !.date = d] :
     d \in {DateStr("isoZ", ExampleDay, 0), DateStr("BdY", ExampleDay, 0), NoDateStr}}
    \cup {[RawExample EXCEPT !.id = IdOf(1), !.version = "V2"],
          [RawExample EXCEPT !.id = IdOf(1), !.date = DateStr("isoZ", ExampleDay, 0)],
          RawExample}

PayloadsIngest ==
  {ListPayload(b) : b \in BatchesOf(RawsIngest, MaxBatch)}
    \cup {ReviewsPayload(<<RawExample>>),
          StoresPayload(<<[RawExample EXCEPT !.date = DateStr("isoZ", ExampleDay, 0)]>>,
                        <<[RawExample EXCEPT !.id = IdOf(1), !.version = "V2"]>>),
          ScalarPayload}

----------------------------------------------------------------------------
(* Ingestion followed by unfiltered queries *)

IngestSome ==
  \E p \in PayloadsIngest : Ingest(p, TRUE) /\ TotalDocs(points') <= MaxDocs

QueryUnfiltered == \E q \in Questions : Query(NoFilterArgs(q), TRUE)

\* the embedding provider or the index is unavailable
IngestAdapterDown == Ingest(ListPayload(<<RawExample>>), FALSE)

QueryAdapterDown == Query(NoFilterArgs("good app"), FALSE)

Next ==
  IngestSome \/ Clear \/ QueryUnfiltered \/ IngestAdapterDown \/ QueryAdapterDown

Spec == Init /\ [][Next]_vars

----------------------------------------------------------------------------
(* Claims on ingestion *)

\* C1: a successful ingestion that directly repeats a successful ingestion
\* of the same payload derives the same logical ids and the same numeric
\* point ids, reports the same total_docs, and leaves exactly one stored
\* point for each of its reviews, holding the payload just written.
C1_ReingestIsIdempotent ==
  (out.op = "ingest" /\ out.again) =>
    /\ out.ids = out.before_ids
    /\ out.pids = out.before_pids
    /\ out.total_docs = out.before_total
    /\ out.total_docs = Cardinality(DOMAIN points)
    /\ \A i \in DOMAIN out.ids :
         /\ out.pids[i] \in DOMAIN points
         /\ points[out.pids[i]].id = out.ids[i]
         /\ Cardinality({k \in DOMAIN points : points[k].id = out.ids[i]}) = 1

\* a review without a source id was ingested twice in a row into a
\* collection that also holds another point
C1_Witness ==
  /\ out.op = "ingest" /\ out.again
  /\ Len(out.ids) = 1 /\ out.ids[1].tag = "review-"
  /\ out.total_docs = 2

\* C9: ingesting the one-element list of the end-to-end example succeeds
\* whenever the adapter does, and stores its one review.
C9_ExampleIngestSucceeds ==
  (out.op = "ingest" /\ out.adapter_ok /\ out.payload = ListPayload(<<RawExample>>)) =>
    (out.raised = "" /\ out.inserted = 1 /\ out.total_docs >= 1)

----------------------------------------------------------------------------
(* Filtered queries: device, ratings, country, version, mobile_model *)

\* 2025-01-01
RangeDay == V3Day - 276

\* one review per (device, rating): devices iOS, absent (Android), Windows
RawFiltered(k, dev, r) ==
  [BlankRaw EXCEPT !.id = IdOf(k), !.title = "A", !.snippet = "Great app",
                   !.rating = Num(r), !.iso_date = DateStr("isoZ", RangeDay, 0),
                   !.device = dev]

RawsFilter ==
  {RawFiltered(1, "iOS", 50), RawFiltered(2, "iOS", 30),
   RawFiltered(3, NONE, 50), RawFiltered(4, NONE, 30),
   RawFiltered(5, "Windows", 50), RawFiltered(6, " iOS ", 50)}

PayloadsFilter == {ListPayload(b) : b \in BatchesOf(RawsFilter, MaxBatch)}

DeviceHints == {"", "iOS", "IOS", "Android", "Windows", " ", " iOS "}

RatingHints ==
  {NoRatingArg, Some(<<5>>), Some(<<3, 5>>), Some(<<0>>), Some(<<9, 5>>)}

ModelHints == {"", "iPhone 14", "Pixel 8"}

ArgsFilter ==
  {Args("good app", EmptyDateStr, EmptyDateStr, dev, rt, "", "", mm) :
     dev \in DeviceHints, rt \in RatingHints, mm \in ModelHints}
    \cup {Args("good app", sd, EmptyDateStr, dev, NoRatingArg, c, v, "") :
            sd \in {GarbageDateStr, DateStr("ymd", RangeDay, 0)},
            dev \in {"", "iOS"}, c \in {"", " India "}, v \in {"", "V1"}}

IngestFiltered ==
  \E p \in PayloadsFilter : Ingest(p, TRUE) /\ TotalDocs(points') <= MaxDocs

QueryFiltered == \E a \in ArgsFilter : Query(a, TRUE)

NextFilter == IngestFiltered \/ Clear \/ QueryFiltered \/ QueryAdapterDown

SpecFilter == Init /\ [][NextFilter]_vars

----------------------------------------------------------------------------
(* Claims on filtered queries *)

QueryReturned == out.op = "query" /\ out.raised = ""

\* the stored payload behind the i-th evidence item
StoredOf(i) == points[out.results[out.kept[i]]]

HasClause(f, key) == \E i \in DOMAIN f.must : f.must[i].key = key

ClauseOf(f, key) == f.must[CHOOSE i \in DOMAIN f.must : f.must[i].key = key]

\* C2: when a query that returned was given a device hint d (not blank) and
\* ratings of which some are valid, every evidence item comes from a stored
\* point whose device equals d (trimmed, ignoring case) and whose rating is
\* one of the valid ratings given, and the item shows that device and rating.
C2_DeviceAndRatingBothHold ==
  (/\ QueryReturned
   /\ Truthy(Strip(out.args.device))
   /\ out.args.rating.some /\ Len(CleanRatings(out.args.rating.v)) > 0) =>
    \A i \in DOMAIN out.retrieved_documents :
      /\ Lower(StoredOf(i).device) = Lower(Strip(out.args.device))
      /\ StoredOf(i).rating \in SeqToSet(CleanRatings(out.args.rating.v))
      /\ out.retrieved_documents[i].metadata.device = StoredOf(i).device
      /\ out.retrieved_documents[i].metadata.rating = StoredOf(i).rating

\* device iOS and ratings 3 or 5 were asked of a collection holding an iOS
\* review of rating 3 and an Android one of rating 5: one item came back
C2_Witness ==
  /\ QueryReturned
  /\ out.args.device = "iOS" /\ out.args.rating = Some(<<3, 5>>)
  /\ Len(out.retrieved_documents) = 1
  /\ \E k \in DOMAIN points : points[k].device = "android" /\ points[k].rating = 5
  /\ \E k \in DOMAIN points : points[k].device = "ios" /\ points[k].rating = 3

\* whether the hints indicate Apple hardware
IndicatesApple(a) ==
  (Truthy(a.device) /\ Lower(Strip(a.device)) = "ios") \/ a.mobile_model = "iPhone 14"

\* C3: a query with a mobile_model records a note, uses no mobile_model
\* clause, reports device iOS (Apple hardware indicated) or Android as
\* applied, and its index filter carries that device clause.
C3_MobileModelSubstitutesDevice ==
  (QueryReturned /\ Truthy(out.args.mobile_model)) =>
    /\ Len(out.notes) > 0
    /\ ~HasClause(out.qdrant_filter, "mobile_model")
    /\ "device" \in out.applied_filters.keys
    /\ out.applied_filters.device = IF IndicatesApple(out.args) THEN "iOS" ELSE "Android"
    /\ HasClause(out.qdrant_filter, "device")
    /\ ClauseOf(out.qdrant_filter, "device").value = Lower(out.applied_filters.device)

\* C4: applied_filters names exactly the constraints that were enforced,
\* each with the value that was enforced: a date bound only when it parsed
\* (and so constrained the index range and the second pass), a device,
\* country or version only with the value of the index clause, the ratings
\* of the any-of clause.
C4_AppliedFiltersAreTheEnforcedOnes ==
  QueryReturned =>
    LET f == out.qdrant_filter
        ap == out.applied_filters
        exact(key) ==
          /\ (key \in ap.keys) <=> HasClause(f, key)
          /\ HasClause(f, key) =>
               ClauseOf(f, key).value =
                 Lower(CASE key = "device" -> ap.device
                         [] key = "country" -> ap.country
                         [] key = "version" -> ap.version)
    IN  /\ ("start_date" \in ap.keys) <=> _parse_date(out.args.start_date).ok
        /\ ("end_date" \in ap.keys) <=> _parse_date(out.args.end_date).ok
        /\ exact("device") /\ exact("country") /\ exact("version")
        /\ ("rating" \in ap.keys) <=> HasClause(f, "rating")
        /\ HasClause(f, "rating") => ClauseOf(f, "rating").any = SeqToSet(ap.rating)

----------------------------------------------------------------------------
(* Date-range queries *)

\* reviews dated around RangeDay (2025-01-01): the last second of the day
\* before, the first and the last second of the day, the first second of
\* the day after, the day as a bare date (with an explicit version), and a
\* review without a date
RawDated(k, ds) ==
  [BlankRaw EXCEPT !.id = IdOf(k), !.title = "A", !.snippet = "Great app",
                   !.rating = Num(50), !.iso_date = ds, !.version = "V1"]

RawsDated ==
  {RawDated(1, DateStr("isoZ", RangeDay - 1, SecondsPerDay - 1)),
   RawDated(2, DateStr("isoZ", RangeDay, 0)),
   RawDated(3, DateStr("isoZ", RangeDay, SecondsPerDay - 1)),
   RawDated(4, DateStr("isoZ", RangeDay + 1, 0)),
   RawDated(5, DateStr("ymd", RangeDay, 0)),
   RawDated(6, NoDateStr)}

PayloadsDated == {ListPayload(b) : b \in BatchesOf(RawsDated, MaxBatch)}

\* a date bound: absent, unparseable, RangeDay in each accepted encoding,
\* and 1970-01-01 as a bare date
StartHints ==
  {EmptyDateStr, GarbageDateStr, DateStr("ymd", 0, 0)}
    \cup {DateStr(f, RangeDay, 0) : f \in {"isoZ", "BdY", "dBY", "ymd"}}

EndHints ==
  {EmptyDateStr, NoDateStr, GarbageDateStr}
    \cup {DateStr(f, RangeDay, 0) : f \in {"isoZ", "BdY", "dBY", "ymd"}}

ArgsDated ==
  {Args(q, sd, ed, "", NoRatingArg, "", "", "") :
     q \in Questions, sd \in StartHints, ed \in EndHints}

IngestDated ==
  \E p \in PayloadsDated : Ingest(p, TRUE) /\ TotalDocs(points') <= MaxDocs

QueryDated == \E a \in ArgsDated : Query(a, TRUE)

NextDated == IngestDated \/ Clear \/ QueryDated \/ QueryAdapterDown

SpecDated == Init /\ [][NextDated]_vars

----------------------------------------------------------------------------
(* Claims on date-range queries *)

\* the numeric ids of the points behind the evidence
ReturnedPids == {out.results[out.kept[i]] : i \in DOMAIN out.kept}

\* C5: when a query that returned had a start or end date that parses,
\* the stored date of every evidence item parses and lies within the parsed
\* bounds; when neither date was supplied, every index result is returned.
C5_EvidenceLiesInDateRange ==
  QueryReturned =>
    LET sd == _parse_date(out.args.start_date)
        ed == _parse_date(out.args.end_date)
    IN  /\ (sd.ok \/ ed.ok) =>
             \A i \in DOMAIN out.retrieved_documents :
               LET dt == _parse_date(out.retrieved_documents[i].metadata.date)
               IN  /\ dt.ok
                   /\ StoredOf(i).date = out.retrieved_documents[i].metadata.date
                   /\ sd.ok => (dt.aware = sd.aware /\ dt.wall >= sd.wall)
                   /\ ed.ok => (dt.aware = ed.aware /\ dt.wall <= ed.wall)
        /\ (~DateTruthy(out.args.start_date) /\ ~DateTruthy(out.args.end_date)) =>
             /\ Len(out.retrieved_documents) = Len(out.results)
             /\ out.kept = [i \in DOMAIN out.results |-> i]

\* under a start date that parses, the index returned two points and the
\* second pass discarded one of them
C5_Witness ==
  /\ QueryReturned
  /\ _parse_date(out.args.start_date).ok
  /\ Len(out.results) = 2
  /\ Len(out.retrieved_documents) = 1

\* C6: with a process in UTC, a query with only an end_date naming day D
\* (in an accepted encoding) returns, and its evidence holds every stored
\* review whose timestamp lies in D and none whose timestamp lies after D.
C6_EndDayIsInclusive ==
  (/\ out.op = "query" /\ out.adapter_ok
   /\ utcoffset = 0
   /\ ~DateTruthy(out.args.start_date)
   /\ _parse_date(out.args.end_date).ok) =>
    /\ out.raised = ""
    /\ \A k \in DOMAIN points :
         points[k].date_ts.some =>
           LET day == points[k].date_ts.v \div SecondsPerDay
           IN  /\ day = out.args.end_date.day => k \in ReturnedPids
               /\ day > out.args.end_date.day => k \notin ReturnedPids

\* C8: a query whose adapter calls succeed returns, whatever its filter
\* inputs are.
C8_QueryNeverRaisesOnFilterInputs ==
  (out.op = "query" /\ out.adapter_ok) => out.raised = ""

----------------------------------------------------------------------------
(* Collections larger than the result limit *)

\* n reviews r1..rn, all dated ds
Bulk(n, ds) == [i \in 1..n |-> RawDated(i, ds)]

BulkSizes == {1, 5, MaxIds - 1, MaxIds}

BulkDates ==
  {DateStr("isoZ", RangeDay - 1, SecondsPerDay - 1), DateStr("isoZ", RangeDay, 0)}

IngestBulk ==
  \E n \in BulkSizes, ds \in BulkDates : Ingest(ListPayload(Bulk(n, ds)), TRUE)

ArgsBulk ==
  {Args(q, sd, EmptyDateStr, "", NoRatingArg, "", "", "") :
     q \in Questions, sd \in {EmptyDateStr, DateStr("ymd", RangeDay, 0)}}

QueryBulk == \E a \in ArgsBulk : Query(a, TRUE)

NextBulk == IngestBulk \/ Clear \/ QueryBulk \/ QueryAdapterDown

SpecBulk == Init /\ [][NextBulk]_vars

\* the position in the index result list of the point shown by evidence i
ResultPos(i) ==
  CHOOSE j \in DOMAIN out.results :
    points[out.results[j]].id = out.retrieved_documents[i].metadata.id

\* C7: the evidence of a query that returned has at most 12 items, each is
\* the projection of one index result, and they stand in the order of the
\* index result list.
C7_EvidenceIsBoundedSubsequence ==
  QueryReturned =>
    /\ Len(out.retrieved_documents) <= 12
    /\ Len(out.results) <= 12
    /\ \A i \in DOMAIN out.retrieved_documents :
         /\ \E j \in DOMAIN out.results :
              points[out.results[j]].id = out.retrieved_documents[i].metadata.id
         /\ out.retrieved_documents[i] =
              EvidenceItem([document |-> points[out.results[ResultPos(i)]].document,
                            metadata |-> points[out.results[ResultPos(i)]],
                            id |-> points[out.results[ResultPos(i)]].id])
    /\ \A i, j \in DOMAIN out.retrieved_documents : i < j => ResultPos(i) < ResultPos(j)

\* the collection holds more than 12 points, the index returned 12 and the
\* second pass kept several but not all of them
C7_Witness ==
  /\ QueryReturned
  /\ Cardinality(DOMAIN points) > 12
  /\ Len(out.results) = 12
  /\ Len(out.retrieved_documents) > 1
  /\ Len(out.retrieved_documents) < 12

----------------------------------------------------------------------------
(* Normalization of every raw review shape, through preview_payload *)

\* preview_payload: the pipeline without indexing
preview_payload(payload, off) ==
  LET processed == process_raw_reviews(_extract_raw_reviews(payload), off)
      dm == create_documents_and_metadata(processed)
  IN  IF ExtractRaises(payload)
      THEN [raised |-> "ValueError", count |-> 0, documents |-> <<>>, metadatas |-> <<>>]
      ELSE IF FirstRaised(processed, 1) # ""
      THEN [raised |-> FirstRaised(processed, 1), count |-> 0, documents |-> <<>>,
            metadatas |-> <<>>]
      ELSE [raised |-> "", count |-> Len(dm.ids), documents |-> dm.documents,
            metadatas |-> dm.metadatas]

Preview(payload) ==
  LET r == preview_payload(payload, utcoffset)
  IN  /\ out' = [op |-> "preview", raised |-> r.raised, payload |-> payload,
                 count |-> r.count, documents |-> r.documents,
                 metadatas |-> r.metadatas]
      /\ UNCHANGED <<points, utcoffset, collection, pc, jobvars, dbvars>>

RawTitles ==
  {<<NONE, NoAuthor>>, <<NONE, AuthorObj("Bob")>>, <<NONE, AuthorStr("Bob")>>,
   <<"A", NoAuthor>>}

RawRatings == {NoRating, Num(27), NumStr(50), Num(0), Num(90), BadStr}

RawDates ==
  {NoDateStr, GarbageDateStr, DateStr("isoZ", V3Day, 0),
   DateStr("isoZ", V3Day - 1, SecondsPerDay - 1), DateStr("BdY", V3Day, 0),
   DateStr("dBY", V3Day, 0), DateStr("ymd", V3Day, 0)}

RawVersions == {NONE, "V2", "Beta"}

RawTexts == {NONE, "", " Great app ", "LONG_700"}

RawsAny ==
  {[BlankRaw EXCEPT !.title = ta[1], !.author = ta[2], !.rating = r, !.date = d,
                    !.version = v, !.snippet = " Great app "] :
     ta \in RawTitles, r \in RawRatings, d \in RawDates, v \in RawVersions}
    \cup {[BlankRaw EXCEPT !.snippet = t, !.text = x] : t \in RawTexts, x \in RawTexts}

PreviewSome == \E raw \in RawsAny : Preview(ListPayload(<<raw>>))

NextNormalize == PreviewSome

SpecNormalize == Init /\ [][NextNormalize]_vars

\* C10: normalizing any raw review returns a record and raises nothing.
C10_NormalizeIsTotal ==
  (out.op = "preview" /\ out.payload.kind = "list") =>
    (out.raised = "" /\ out.count = Len(out.payload.items))

----------------------------------------------------------------------------
(* Ratings: ingestion and preview of reviews that differ in their rating *)

\* absent, 0, 0.9, 1, 2.7, "5", 5.9, 9 and -1.5
RawRatingValues ==
  {NoRating, Num(0), Num(9), Num(10), Num(27), NumStr(50), Num(59), Num(90), Num(-15)}

RawRated(k, r) ==
  [BlankRaw EXCEPT !.id = IdOf(k), !.title = "A", !.snippet = "Great app",
                   !.rating = r, !.iso_date = DateStr("isoZ", RangeDay, 0)]

IngestRated ==
  \E k \in 1..2, r \in RawRatingValues : Ingest(ListPayload(<<RawRated(k, r)>>), TRUE)

PreviewRated ==
  \E r \in RawRatingValues : Preview(ListPayload(<<RawRated(1, r)>>))

NextRating == IngestRated \/ PreviewRated \/ Clear

SpecRating == Init /\ [][NextRating]_vars

\* the rating r is the raw value (in tenths, 0 when absent) cut to an
\* integer and brought into 1..5
IsTruncClamp(raw, r) ==
  LET t == IF raw.kind = "none" THEN 0 ELSE raw.tenths
  IN  /\ r \in 1..5
      /\ t < 10 => r = 1
      /\ t >= 60 => r = 5
      /\ (t >= 10 /\ t < 60) => (10 * r <= t /\ t < 10 * r + 10)

\* C11: every stored point has a rating in 1..5, and the rating that an
\* ingestion stores or a preview shows for a review is its raw rating
\* truncated and clamped: below 1 gives 1, above 5 gives 5.
C11_RatingIsTruncatedAndClamped ==
  /\ \A k \in DOMAIN points : points[k].rating \in 1..5
  /\ (out.op = "ingest" /\ out.raised = "") =>
       \A i \in DOMAIN out.pids :
         IsTruncClamp(out.payload.items[i].rating, points[out.pids[i]].rating)
  /\ (out.op = "preview" /\ out.raised = "") =>
       \A i \in DOMAIN out.metadatas :
         IsTruncClamp(out.payload.items[i].rating, out.metadatas[i].rating)

\* a review rated -1.5 was just stored with rating 1 next to a point of
\* rating 2 (stored from 2.7)
C11_Witness ==
  /\ out.op = "ingest" /\ out.raised = ""
  /\ out.payload.items[1].rating = Num(-15)
  /\ points[out.pids[1]].rating = 1
  /\ \E k \in DOMAIN points : points[k].rating = 2

----------------------------------------------------------------------------
(* Versions: preview of reviews that differ in version tag and date *)

RawVersionTags == {NONE, "V1", "V2", "v3", " v2 ", "Beta"}

\* no date, an unparseable one, the first second of v3 and of v2 and the
\* second before each (with an offset), and the days of v3_start and
\* v2_start by month name and as bare dates
RawVersionDates ==
  {NoDateStr, GarbageDateStr,
   DateStr("isoZ", V3Day, 0), DateStr("isoZ", V3Day - 1, SecondsPerDay - 1),
   DateStr("isoZ", V2Day, 0), DateStr("isoZ", V2Day - 1, SecondsPerDay - 1),
   DateStr("BdY", V3Day, 0), DateStr("dBY", V2Day, 0),
   DateStr("ymd", V3Day, 0), DateStr("ymd", V2Day - 1, 0)}

RawVersioned(v, ds) ==
  [BlankRaw EXCEPT !.title = "A", !.snippet = "Great app", !.rating = Num(50),
                   !.version = v, !.date = ds]

PreviewVersioned ==
  \E v \in RawVersionTags, ds \in RawVersionDates :
    Preview(ListPayload(<<RawVersioned(v, ds)>>))

NextVersion == PreviewVersioned

SpecVersion == Init /\ [][NextVersion]_vars

\* the version the classification rule gives a raw review: its tag when it
\* is one of v1, v2, v3 (trimmed, ignoring case), else by the instant its
\* date names, v1 when the date does not parse
ClassifiedVersion(raw) ==
  LET tag == Lower(Strip(PyOr(raw.version, "")))
      ds == raw.date
      parses == ds.fmt \in {"isoZ", "BdY", "dBY", "ymd"}
      instant == ds.day * SecondsPerDay + ds.sec
  IN  IF tag \in {"v1", "v2", "v3"} THEN tag
      ELSE IF ~parses THEN "v1"
      ELSE IF instant >= V3Day * SecondsPerDay THEN "v3"
      ELSE IF instant >= V2Day * SecondsPerDay THEN "v2"
      ELSE "v1"

\* C12: the preview of a review returns, and the version it shows is the
\* review's tag when that is v1, v2 or v3, and otherwise follows the date:
\* v3 from v3_start on, v2 from v2_start on, v1 before or without a date.
C12_VersionIsClassified ==
  out.op = "preview" =>
    /\ out.raised = ""
    /\ out.metadatas[1].version = ClassifiedVersion(out.payload.items[1])

----------------------------------------------------------------------------
(* Payload shapes: preview and ingestion of every shape *)

RawShaped(t) ==
  [BlankRaw EXCEPT !.title = t, !.snippet = "Great app", !.rating = Num(50)]

RawsShaped == {RawShaped(t) : t \in {"A", "B", "Bob"}}

PayloadsShaped ==
  {ListPayload(b) : b \in BatchesOf(RawsShaped, MaxBatch + 1)}
    \cup {ReviewsPayload(b) : b \in BatchesOf(RawsShaped, MaxBatch + 1)}
    \cup {StoresPayload(g, a) : g \in BatchesOf(RawsShaped, 1), a \in BatchesOf(RawsShaped, 1)}
    \cup {ScalarPayload, ObjectPayload}

PreviewShaped == \E p \in PayloadsShaped : Preview(p)

IngestShaped == \E p \in PayloadsShaped : Ingest(p, TRUE)

NextShaped == PreviewShaped \/ IngestShaped \/ Clear

SpecShaped == Init /\ [][NextShaped]_vars

\* the list a payload of one of the three shapes stands for
ListOfShape(payload) ==
  CASE payload.kind \in {"list", "reviews"} -> payload.items
    [] payload.kind = "dict" -> payload.google_play \o payload.apple

\* C13: a preview or an ingestion of a payload that has none of the three
\* shapes fails with the validation error; for a payload of one of the
\* shapes it returns and has worked on exactly the list the shape stands
\* for, in its order.
C13_ExtractFailsOnlyOffShape ==
  (out.op \in {"preview", "ingest"}) =>
    IF out.payload.kind \in {"scalar", "object"}
    THEN out.raised = "ValueError"
    ELSE /\ out.raised = ""
         /\ out.op = "preview" =>
              /\ out.count = Len(ListOfShape(out.payload))
              /\ \A i \in DOMAIN out.metadatas :
                   out.metadatas[i].title = ListOfShape(out.payload)[i].title
         /\ out.op = "ingest" =>
              /\ Len(out.pids) = Len(ListOfShape(out.payload))
              /\ \A i \in DOMAIN out.pids :
                   points[out.pids[i]].title = ListOfShape(out.payload)[i].title

----------------------------------------------------------------------------
(* QdrantService.add_embeddings called with batches of any lengths *)

\* add_embeddings(ids, documents, metadatas); before is the collection as
\* the call found it
Upsert(ids, documents, metadatas) ==
  LET raises == AddRaises(ids, documents, metadatas)
  IN  /\ points' = IF raises THEN points
                   ELSE add_embeddings(points, ids, documents, metadatas)
      /\ out' = [op |-> "upsert", raised |-> IF raises THEN "IndexError" ELSE "",
                 ids |-> ids, documents |-> documents, metadatas |-> metadatas,
                 before |-> points]
      /\ UNCHANGED <<utcoffset, collection, pc, jobvars, dbvars>>

MetadataExample == MetadataOf(_normalize_review_record(RawRated(1, Num(50)), 0))

UpsertSome ==
  \E ids \in BatchesOf({IdOf(1), IdOf(2)}, MaxBatch + 1),
     documents \in BatchesOf({"Great app"}, MaxBatch + 1),
     metadatas \in BatchesOf({MetadataExample}, MaxBatch + 1) :
    Upsert(ids, documents, metadatas)

NextUpsert == UpsertSome \/ Clear

SpecUpsert == Init /\ [][NextUpsert]_vars

\* C14: an upsert whose three batches differ in length fails with the
\* indexing error and leaves the collection as it found it.
C14_UpsertRejectsUnequalBatches ==
  (/\ out.op = "upsert"
   /\ \/ Len(out.ids) # Len(out.documents)
      \/ Len(out.ids) # Len(out.metadatas)) =>
    /\ out.raised = "IndexError"
    /\ points = out.before

----------------------------------------------------------------------------
(* Clearing the collection, the delete succeeding or not *)

\* clear_collection: the collection after the call.  An exception of the
\* delete (or of the listing before it) is logged and swallowed, and
\* _initialize_collection creates a collection only when none exists.
clear_collection(pts, delete_ok) == IF delete_ok THEN NoPoints ELSE pts

\* the index engine fails to delete the collection; clear_collection
\* returns normally all the same
ClearDeleteFails ==
  /\ points' = clear_collection(points, FALSE)
  /\ out' = [op |-> "clear", raised |-> ""]
  /\ UNCHANGED <<utcoffset, collection, pc, jobvars, dbvars>>

PayloadsClear ==
  {ListPayload(b) :
     b \in BatchesOf({RawRated(k, Num(50)) : k \in 1..3}, MaxBatch + 1)}

IngestBeforeClear == \E p \in PayloadsClear : Ingest(p, TRUE)

NextClear == IngestBeforeClear \/ Clear \/ ClearDeleteFails

SpecClear == Init /\ [][NextClear]_vars

\* C15: when clear_collection has returned, the collection holds no point,
\* and the ingestion that follows it reports as total_docs the number of
\* points it wrote itself, which are then the only points.
C15_ClearLeavesNoPoint ==
  [][/\ (out'.op = "clear" /\ out'.raised = "") => points' = NoPoints
     /\ (/\ out.op = "clear" /\ out.raised = ""
         /\ out'.op = "ingest" /\ out'.raised = "") =>
          /\ DOMAIN points' = SeqToSet(out'.pids)
          /\ out'.total_docs = Cardinality(SeqToSet(out'.pids))]_vars

----------------------------------------------------------------------------
(* ReviewEmbeddingService: fetching from the two store-review providers *)

\* What a provider answers to one call: a page ("ok") with n reviews and
\* possibly a next-page token, an error payload ("error"), or no answer at
\* all, the call raising ("raise").  A provider is the sequence of its
\* answers to the first, second, ... call; past its end it answers with an
\* empty page without token.
Page(kind, n, token) == [kind |-> kind, n |-> n, token |-> token]

EmptyPage == Page("ok", 0, FALSE)

PageAt(pages, i) == IF i \in DOMAIN pages THEN pages[i] ELSE EmptyPage

\* the default of the max_pages parameter
max_pages_default == 2

\* the reviews of the i-th page of a provider, as the provider sends them
RawLive(k) ==
  [BlankRaw EXCEPT !.id = IdOf(k), !.title = "A", !.snippet = "Great app",
                   !.rating = Num(50), !.iso_date = DateStr("isoZ", RangeDay, 0)]

PlayReviews(page, i) == IF page.n = 0 THEN <<>> ELSE <<RawLive(i)>>

AppleReviews(page, i) == IF page.n = 0 THEN <<>> ELSE <<RawLive(4 + i)>>

\* review["device"] = ...; review["country"] = "India"
Tagged(reviews, device) ==
  [i \in DOMAIN reviews |-> [reviews[i] EXCEPT !.device = device, !.country = "India"]]

\* the while loop of lines 128-143 from page_count on:
\* [raised, reviews, calls], calls being the calls made to the provider
RECURSIVE PlayLoop(_, _, _, _)
PlayLoop(pages, page_count, max_pages, combined) ==
  IF ~(page_count < max_pages)
  THEN [raised |-> "", reviews |-> combined, calls |-> page_count]
  ELSE LET results == PageAt(pages, page_count + 1)
           added == combined \o Tagged(PlayReviews(results, page_count + 1), "Android")
       IN  IF results.kind = "raise"
           THEN [raised |-> "ProviderException", reviews |-> <<>>,
                 calls |-> page_count + 1]
           ELSE IF results.kind = "error"
           THEN [raised |-> "", reviews |-> combined, calls |-> page_count + 1]
           ELSE IF ~results.token
           THEN [raised |-> "", reviews |-> added, calls |-> page_count + 1]
           ELSE PlayLoop(pages, page_count + 1, max_pages, added)

\* the for loop of lines 146-166 from page on
RECURSIVE AppleLoop(_, _, _, _)
AppleLoop(pages, page, max_pages, combined) ==
  IF page > max_pages
  THEN [raised |-> "", reviews |-> combined, calls |-> page - 1]
  ELSE LET results == PageAt(pages, page)
       IN  IF results.kind = "raise"
           THEN [raised |-> "ProviderException", reviews |-> <<>>, calls |-> page]
           ELSE IF results.kind = "error"
           THEN [raised |-> "", reviews |-> combined, calls |-> page]
           ELSE IF results.n = 0
           THEN [raised |-> "", reviews |-> combined, calls |-> page]
           ELSE AppleLoop(pages, page + 1, max_pages,
                          combined \o Tagged(AppleReviews(results, page), "iOS"))

\* [raised, reviews, play_calls, apple_calls]; api_key is whether
\* SERPAPI_API_KEY is set ("ApiKeyRequired" is the ValueError of line 113)
collect_reviews_from_store_apis(play, apple, max_pages, api_key) ==
  LET g == PlayLoop(play, 0, max_pages, <<>>)
      a == AppleLoop(apple, 1, max_pages, g.reviews)
  IN  IF ~api_key
      THEN [raised |-> "ApiKeyRequired", reviews |-> <<>>, play_calls |-> 0,
            apple_calls |-> 0]
      ELSE IF g.raised # ""
      THEN [raised |-> g.raised, reviews |-> <<>>, play_calls |-> g.calls,
            apple_calls |-> 0]
      ELSE IF a.raised # ""
      THEN [raised |-> a.raised, reviews |-> <<>>, play_calls |-> g.calls,
            apple_calls |-> a.calls]
      ELSE [raised |-> "", reviews |-> a.reviews, play_calls |-> g.calls,
            apple_calls |-> a.calls]

----------------------------------------------------------------------------
(* Pagination: fetch_live_reviews against providers of every behaviour *)

\* ReviewRAGService.fetch_live_reviews: the fetch without indexing
FetchLive(play, apple, max_pages) ==
  LET r == collect_reviews_from_store_apis(play, apple, max_pages, TRUE)
  IN  /\ out' = [op |-> "fetch", raised |-> r.raised, play |-> play, apple |-> apple,
                 max_pages |-> max_pages, play_calls |-> r.play_calls,
                 apple_calls |-> r.apple_calls, count |-> Len(r.reviews)]
      /\ UNCHANGED <<points, utcoffset, collection, pc, jobvars, dbvars>>

PageKinds ==
  {Page("ok", 1, TRUE), Page("ok", 1, FALSE), Page("ok", 0, TRUE),
   Page("ok", 0, FALSE), Page("error", 0, FALSE)}

\* every behaviour of a provider over its first max_pages_default + 1 calls
ProviderScripts == [1..(max_pages_default + 1) -> PageKinds]

\* a provider that always has a further page
EndlessProvider == [i \in 1..(max_pages_default + 1) |-> Page("ok", 1, TRUE)]

MaxPagesArgs == 1..max_pages_default

FetchPlayVaried ==
  \E play \in ProviderScripts, m \in MaxPagesArgs : FetchLive(play, EndlessProvider, m)

FetchAppleVaried ==
  \E apple \in ProviderScripts, m \in MaxPagesArgs : FetchLive(EndlessProvider, apple, m)

NextPaging == FetchPlayVaried \/ FetchAppleVaried

SpecPaging == Init /\ [][NextPaging]_vars

\* the calls made to a provider follow the policy: at most max_pages, and
\* none after a page without token, an empty page or an error payload
FollowsPolicy(pages, calls, max_pages) ==
  /\ calls <= max_pages
  /\ \A j \in 1..(calls - 1) :
       /\ PageAt(pages, j).kind = "ok"
       /\ PageAt(pages, j).token
       /\ PageAt(pages, j).n > 0

\* C18: a fetch makes at most max_pages calls to each provider, and no
\* call to a provider after a page of it that had no next-page token or
\* no item.
C18_PaginationFollowsPolicy ==
  (out.op = "fetch" /\ out.raised = "") =>
    /\ FollowsPolicy(out.play, out.play_calls, out.max_pages)
    /\ FollowsPolicy(out.apple, out.apple_calls, out.max_pages)

----------------------------------------------------------------------------
(* Live ingestion: ingest_live_reviews *)

\* what a failed live ingestion leaves: nothing written
LiveFailed(pts, c, e) ==
  [raised |-> e, points |-> pts, fetched |-> Len(c.reviews), ids |-> <<>>,
   pids |-> <<>>, inserted |-> 0, total_docs |-> 0,
   play_calls |-> c.play_calls, apple_calls |-> c.apple_calls]

\* the fetched list is indexed whether or not it is empty
IndexFetchedUnchecked(pts, c, off, adapter_ok) ==
  LET r == ingest_reviews_from_payload(pts, ListPayload(c.reviews), off, adapter_ok)
  IN  IF c.raised # "" THEN LiveFailed(pts, c, c.raised)
      ELSE IF r.raised # "" THEN LiveFailed(pts, c, r.raised)
      ELSE [raised |-> "", points |-> r.points, fetched |-> Len(c.reviews),
            ids |-> r.ids, pids |-> r.pids, inserted |-> r.inserted,
            total_docs |-> r.total_docs,
            play_calls |-> c.play_calls, apple_calls |-> c.apple_calls]

\* lines 243-247 on the result c of the fetch; "NoLiveReviews" is the
\* ValueError of line 244
IndexFetched(pts, c, off, adapter_ok) ==
  LET r == ingest_reviews_from_payload(pts, ListPayload(c.reviews), off, adapter_ok)
  IN  IF c.raised # "" THEN LiveFailed(pts, c, c.raised)
      ELSE IF Len(c.reviews) = 0 THEN LiveFailed(pts, c, "NoLiveReviews")
      ELSE IF r.raised # "" THEN LiveFailed(pts, c, r.raised)
      ELSE [raised |-> "", points |-> r.points, fetched |-> Len(c.reviews),
            ids |-> r.ids, pids |-> r.pids, inserted |-> r.inserted,
            total_docs |-> r.total_docs,
            play_calls |-> c.play_calls, apple_calls |-> c.apple_calls]

\* the fetch, then the indexing of what it returned
ingest_live_reviews(pts, play, apple, max_pages, api_key, off, adapter_ok) ==
  CHOOSE r \in {IndexFetched(pts, c, off, adapter_ok) :
                  c \in {collect_reviews_from_store_apis(play, apple, max_pages, api_key)}} :
    TRUE

\* ReviewRAGService.ingest_live; before is the collection as the call
\* found it
IngestLive(play, apple, api_key, adapter_ok) ==
  \E r \in {ingest_live_reviews(points, play, apple, max_pages_default, api_key,
                                 utcoffset, adapter_ok)} :
      /\ points' = r.points
      /\ out' = [op |-> "ingest_live", raised |-> r.raised, play |-> play,
                 apple |-> apple, api_key |-> api_key, adapter_ok |-> adapter_ok,
                 fetched |-> r.fetched, ids |-> r.ids, pids |-> r.pids,
                 inserted |-> r.inserted, total_docs |-> r.total_docs,
                 play_calls |-> r.play_calls, apple_calls |-> r.apple_calls,
                 before |-> points]
      /\ UNCHANGED <<utcoffset, collection, pc, jobvars, dbvars>>

\* a provider with two pages of reviews, with none, answering with an error
\* payload at once or after a page, and raising at once or after a page
LiveScripts ==
  {<<Page("ok", 1, TRUE), Page("ok", 1, FALSE)>>,
   <<EmptyPage>>,
   <<Page("error", 0, FALSE)>>,
   <<Page("ok", 1, TRUE), Page("error", 0, FALSE)>>,
   <<Page("raise", 0, FALSE)>>,
   <<Page("ok", 1, TRUE), Page("raise", 0, FALSE)>>}

IngestLiveSome ==
  \E play \in LiveScripts, apple \in LiveScripts : IngestLive(play, apple, TRUE, TRUE)

\* SERPAPI_API_KEY is not set
IngestLiveKeyMissing == IngestLive(<<EmptyPage>>, <<EmptyPage>>, FALSE, TRUE)

\* the embedding provider or the index is unavailable
IngestLiveAdapterDown ==
  IngestLive(<<Page("ok", 1, FALSE)>>, <<EmptyPage>>, TRUE, FALSE)

NextLive == IngestLiveSome \/ IngestLiveKeyMissing \/ IngestLiveAdapterDown \/ Clear

SpecLive == Init /\ [][NextLive]_vars

\* C16: a live ingestion whose fetch returned no review at all fails with
\* the "no data" error and leaves the collection as it found it; one whose
\* fetch returned a review does not fail with that error.
C16_NoDataWhenNothingFetched ==
  (out.op = "ingest_live" /\ out.api_key) =>
    /\ (out.raised # "ProviderException" /\ out.fetched = 0) =>
         (out.raised = "NoLiveReviews" /\ points = out.before)
    /\ out.fetched > 0 => out.raised # "NoLiveReviews"

\* one provider answered with an error payload and the other with an empty
\* page while the collection held points: the "no data" error, no write
C16_Witness ==
  /\ out.op = "ingest_live" /\ out.raised = "NoLiveReviews"
  /\ out.play = <<Page("error", 0, FALSE)>> /\ out.apple = <<EmptyPage>>
  /\ out.before # NoPoints /\ points = out.before

\* the logical ids of the reviews on the pages that a provider was asked
\* for and answered with
Yielded(pages, calls, first) ==
  {IdOf(first + j) : j \in {i \in 1..calls : PageAt(pages, i).kind = "ok"
                                               /\ PageAt(pages, i).n > 0}}

\* C19: whatever the providers do, a live ingestion whose index is
\* available either stores every review that the providers' answered pages
\* carried, or fails with the "no data" error when they carried none.
C19_ProviderFailureIsNotFatal ==
  (out.op = "ingest_live" /\ out.api_key /\ out.adapter_ok) =>
    LET got == Yielded(out.play, out.play_calls, 0)
                 \cup Yielded(out.apple, out.apple_calls, 4)
    IN  /\ out.raised \in {"", "NoLiveReviews"}
        /\ out.raised = "NoLiveReviews" <=> got = {}
        /\ out.raised = "" => \A id \in got : \E k \in DOMAIN points : points[k].id = id

----------------------------------------------------------------------------
(* LiveIngestBackgroundService.execute_live_ingest *)

\* reviews_sample.json: the fixed sample dataset
load_sample_reviews_payload == <<RawLive(9), RawLive(10)>>

ExecuteResult(raised, status, reason, fallback_error, pts, attempted, live_count) ==
  [raised |-> raised, status |-> status, reason |-> reason,
   fallback_error |-> fallback_error, points |-> pts,
   sample_attempted |-> attempted, live_count |-> live_count]

\* the exception, if any, of the try block: of the clear, of the fetch, the
\* "no data" ValueError of line 73, or of the indexing of the merged list
LiveError(clear, c, live) ==
  IF clear = "raise" THEN "ClearError"
  ELSE IF c.raised # "" THEN c.raised
  ELSE IF Len(c.reviews) = 0 THEN "NoLiveReviews"
  ELSE live.raised

\* the sample is ingested after a failure whatever fallback_to_sample says
ExecuteAlwaysFallingBack(cleared, clear, c, live, fb, fallback_to_sample) ==
  LET e == LiveError(clear, c, live)
  IN  IF e = ""
      THEN ExecuteResult("", "ok", "", "", live.points, FALSE, Len(c.reviews))
      ELSE IF fb.raised # ""
      THEN ExecuteResult("RuntimeError", "", e, fb.raised, cleared, TRUE, 0)
      ELSE ExecuteResult("", "fallback_to_sample", e, "", fb.points, TRUE, 0)

\* execute_live_ingest, given the outcome of each call it makes: cleared is
\* the collection after clear_vector_store (clear tells how that went), c
\* the result of the fetch, live that of indexing the merged list and fb
\* that of indexing the sample
execute_live_ingest(cleared, clear, c, live, fb, fallback_to_sample) ==
  LET e == LiveError(clear, c, live)
  IN  IF e = ""
      THEN ExecuteResult("", "ok", "", "", live.points, FALSE, Len(c.reviews))
      ELSE IF ~fallback_to_sample
      THEN ExecuteResult("RuntimeError", "", e, "", cleared, FALSE, 0)
      ELSE IF fb.raised # ""
      THEN ExecuteResult("RuntimeError", "", e, fb.raised, cleared, TRUE, 0)
      ELSE ExecuteResult("", "fallback_to_sample", e, "", fb.points, TRUE, 0)

\* clear is "ok", "stale" (the delete failed and was swallowed) or "raise"
\* (the index cannot be reached); live_ok and fb_ok are whether the adapter
\* works when the merged list and when the sample is indexed
ExecuteLiveIngest(play, apple, clear, live_ok, fb_ok, fallback_to_sample) ==
  \E cleared \in {clear_collection(points, clear = "ok")} :
  \E c \in {collect_reviews_from_store_apis(play, apple, max_pages_default, TRUE)} :
  \E live \in {ingest_reviews_from_payload(
                 cleared, ListPayload(c.reviews \o load_sample_reviews_payload),
                 utcoffset, live_ok)} :
  \E fb \in {ingest_reviews_from_payload(
               cleared, ListPayload(load_sample_reviews_payload), utcoffset, fb_ok)} :
  \E r \in {execute_live_ingest(cleared, clear, c, live, fb, fallback_to_sample)} :
    /\ points' = r.points
    /\ out' = [op |-> "execute", raised |-> r.raised, status |-> r.status,
               reason |-> r.reason, fallback_error |-> r.fallback_error,
               sample_attempted |-> r.sample_attempted, live_count |-> r.live_count,
               play |-> play, apple |-> apple, clear |-> clear, live_ok |-> live_ok,
               fb_ok |-> fb_ok, fallback_to_sample |-> fallback_to_sample,
               cleared |-> cleared, before |-> points]
    /\ UNCHANGED <<utcoffset, collection, pc, jobvars, dbvars>>

FallbackScripts ==
  {<<Page("ok", 1, FALSE)>>, <<EmptyPage>>, <<Page("raise", 0, FALSE)>>}

ExecuteSome ==
  \E play \in FallbackScripts, apple \in FallbackScripts,
     clear \in {"ok", "stale", "raise"}, live_ok \in BOOLEAN, fb_ok \in BOOLEAN,
     fallback_to_sample \in BOOLEAN :
    ExecuteLiveIngest(play, apple, clear, live_ok, fb_ok, fallback_to_sample)

NextFallback == ExecuteSome

SpecFallback == Init /\ [][NextFallback]_vars

\* whether the live path of the last execute failed, read off what its
\* calls did: the clear raised, a provider call raised, the providers gave
\* no review, or the index was down for the merged list
LivePathFailed ==
  \/ out.clear = "raise"
  \/ \E i \in DOMAIN out.play : out.play[i].kind = "raise"
  \/ \E i \in DOMAIN out.apple : out.apple[i].kind = "raise"
  \/ (\A i \in DOMAIN out.play : out.play[i].n = 0)
       /\ (\A i \in DOMAIN out.apple : out.apple[i].n = 0)
  \/ ~out.live_ok

\* the first failure on the live path
OriginalFailure ==
  IF out.clear = "raise" THEN "ClearError"
  ELSE IF \/ \E i \in DOMAIN out.play : out.play[i].kind = "raise"
          \/ \E i \in DOMAIN out.apple : out.apple[i].kind = "raise"
       THEN "ProviderException"
  ELSE IF (\A i \in DOMAIN out.play : out.play[i].n = 0)
            /\ (\A i \in DOMAIN out.apple : out.apple[i].n = 0)
       THEN "NoLiveReviews"
  ELSE "AdapterError"

SampleIds == {load_sample_reviews_payload[i].id : i \in DOMAIN load_sample_reviews_payload}

\* C17: after a failure of the live path, with the fallback enabled the
\* sample is ingested and the result has status fallback_to_sample and the
\* original reason, or, when ingesting the sample fails too, an error with
\* both failures is raised; with the fallback disabled the failure is
\* raised and the sample is not touched.  Without a failure nothing is
\* raised.
C17_FallbackOnLiveFailure ==
  out.op = "execute" =>
    /\ ~LivePathFailed => (out.raised = "" /\ out.status = "ok")
    /\ (LivePathFailed /\ out.fallback_to_sample /\ out.fb_ok) =>
         /\ out.raised = "" /\ out.status = "fallback_to_sample"
         /\ out.reason = OriginalFailure
         /\ \A id \in SampleIds : \E k \in DOMAIN points : points[k].id = id
    /\ (LivePathFailed /\ out.fallback_to_sample /\ ~out.fb_ok) =>
         /\ out.raised = "RuntimeError"
         /\ out.reason = OriginalFailure /\ out.fallback_error # ""
         /\ points = out.cleared
    /\ (LivePathFailed /\ ~out.fallback_to_sample) =>
         /\ out.raised = "RuntimeError" /\ out.reason = OriginalFailure
         /\ ~out.sample_attempted
         /\ points = out.cleared

\* a provider call raised after the collection was cleared of an earlier
\* live ingestion, and the sample alone was ingested in its place
C17_Witness ==
  /\ out.op = "execute" /\ out.status = "fallback_to_sample"
  /\ out.reason = "ProviderException"
  /\ out.clear = "ok"
  /\ {points[k].id : k \in DOMAIN points} = SampleIds

----------------------------------------------------------------------------
(* QdrantService.build_filter called with every combination of inputs *)

BuildFilter(device, rating_values, country, version, start_ts, end_ts) ==
  /\ out' = [op |-> "build_filter", raised |-> "", device |-> device,
             rating_values |-> rating_values, country |-> country,
             version |-> version, start_ts |-> start_ts, end_ts |-> end_ts,
             filter |-> build_filter(device, rating_values, country, version,
                                     start_ts, end_ts)]
  /\ UNCHANGED <<points, utcoffset, collection, pc, jobvars, dbvars>>

\* a bound of the range: absent, 1970-01-01T00:00:00Z, 2025-01-01T00:00:00Z
TsArgs == {Null, Some(0), Some(RangeDay * SecondsPerDay)}

BuildFilterSome ==
  \E device \in {"", " ", " iOS "}, rating_values \in {<<>>, <<0>>, <<5>>, <<9, 5, 3>>},
     country \in {"", " India "}, version \in {"", "V2"},
     start_ts \in TsArgs, end_ts \in TsArgs :
    BuildFilter(device, rating_values, country, version, start_ts, end_ts)

NextBuild == BuildFilterSome

SpecBuild == Init /\ [][NextBuild]_vars

\* the clauses that the inputs of the last build_filter call for: one per
\* supplied input (the two bounds making one range)
SuppliedKeys ==
  (IF \E i \in DOMAIN out.rating_values : out.rating_values[i] \in 1..5
   THEN {"rating"} ELSE {})
    \cup (IF Truthy(Strip(out.device)) THEN {"device"} ELSE {})
    \cup (IF Truthy(Strip(out.country)) THEN {"country"} ELSE {})
    \cup (IF Truthy(Strip(out.version)) THEN {"version"} ELSE {})
    \cup (IF out.start_ts.some \/ out.end_ts.some THEN {"date_ts"} ELSE {})

\* C20: build_filter gives "no filter" exactly when no input is supplied,
\* and otherwise one clause for each supplied input and no other: the
\* any-of over the given ratings that lie in 1..5, the trimmed lower-case
\* device, country and version, and the range with the given bounds.
C20_OneClausePerSuppliedInput ==
  out.op = "build_filter" =>
    LET f == out.filter
    IN  /\ f.none <=> SuppliedKeys = {}
        /\ {f.must[i].key : i \in DOMAIN f.must} = SuppliedKeys
        /\ Len(f.must) = Cardinality(SuppliedKeys)
        /\ HasClause(f, "rating") =>
             ClauseOf(f, "rating").any =
               {out.rating_values[i] : i \in DOMAIN out.rating_values} \cap (1..5)
        /\ HasClause(f, "device") =>
             ClauseOf(f, "device").value = Lower(Strip(out.device))
        /\ HasClause(f, "country") =>
             ClauseOf(f, "country").value = Lower(Strip(out.country))
        /\ HasClause(f, "version") =>
             ClauseOf(f, "version").value = Lower(Strip(out.version))
        /\ HasClause(f, "date_ts") =>
             /\ ClauseOf(f, "date_ts").gte = out.start_ts
             /\ ClauseOf(f, "date_ts").lte = out.end_ts

\* C21: whenever start_ts or end_ts is set, whatever its value, the filter
\* has a range clause on date_ts with exactly the given bounds (an absent
\* bound stays absent), and a point whose timestamp equals a set bound
\* satisfies the clause.
C21_RangeClauseForEverySetBound ==
  (out.op = "build_filter" /\ (out.start_ts.some \/ out.end_ts.some)) =>
    /\ HasClause(out.filter, "date_ts")
    /\ LET c == ClauseOf(out.filter, "date_ts")
       IN  /\ c.gte = out.start_ts
           /\ c.lte = out.end_ts
           /\ \A b \in {out.start_ts, out.end_ts} :
                (/\ b.some
                 /\ (out.start_ts.some /\ out.end_ts.some)
                      => out.start_ts.v <= out.end_ts.v)
                  => Matches([date_ts |-> b], c)

----------------------------------------------------------------------------
(* QdrantService._initialize_collection: the collection's existence *)

\* the collection is created whether or not it exists
InitializeUnconditionally(col, dim, embed_ok) ==
  IF ~embed_ok
  THEN [raised |-> "AdapterError", collection |-> col, created |-> 0, probes |-> 1]
  ELSE [raised |-> "", created |-> 1, probes |-> 1,
        collection |-> [exists |-> TRUE, size |-> dim, distance |-> "Cosine"]]

\* _initialize_collection on the index as it is: the collection after the
\* call, the create_collection calls and the embed_query calls made.  dim is
\* the length of the vector the embedder returns for the canary string.
_initialize_collection(col, dim, embed_ok) ==
  IF col.exists
  THEN [raised |-> "", collection |-> col, created |-> 0, probes |-> 0]
  ELSE IF ~embed_ok
  THEN [raised |-> "AdapterError", collection |-> col, created |-> 0, probes |-> 1]
  ELSE [raised |-> "", created |-> 1, probes |-> 1,
        collection |-> [exists |-> TRUE, size |-> dim, distance |-> "Cosine"]]

EnsureCollection(dim, embed_ok) ==
  \E r \in {_initialize_collection(collection, dim, embed_ok)} :
    /\ collection' = r.collection
    /\ out' = [op |-> "ensure", raised |-> r.raised, created |-> r.created,
               probes |-> r.probes, dim |-> dim, embed_ok |-> embed_ok,
               before |-> collection, points_before |-> points]
    /\ UNCHANGED <<points, utcoffset, pc, jobvars, dbvars>>

\* client.delete_collection: the collection goes, and its points with it
DeleteCollection ==
  /\ collection.exists
  /\ collection' = NoCollection
  /\ points' = NoPoints
  /\ out' = [op |-> "delete", raised |-> ""]
  /\ UNCHANGED <<utcoffset, pc, jobvars, dbvars>>

ProbeDims == {VectorSize, VectorSize + 1}

EnsureSome == \E dim \in ProbeDims : EnsureCollection(dim, TRUE)

EnsureEmbedderDown == \E dim \in ProbeDims : EnsureCollection(dim, FALSE)

\* add_embeddings of one point into the existing collection
UpsertOne ==
  /\ collection.exists
  /\ \E k \in 1..3 : Upsert(<<IdOf(k)>>, <<"Great app">>, <<MetadataExample>>)

NextCollection == EnsureSome \/ EnsureEmbedderDown \/ DeleteCollection \/ UpsertOne

SpecCollection == Init /\ [][NextCollection]_vars

\* C22: a call that finds the collection creates nothing, does not call the
\* embedder and leaves the collection and its points as they were; a call
\* that finds no collection and returns has probed the embedder once and
\* created the collection once, with the probed size and the cosine metric;
\* a call that raises leaves the index as it was.
C22_EnsureCollectionIsIdempotent ==
  out.op = "ensure" =>
    /\ out.before.exists =>
         /\ out.raised = "" /\ out.created = 0 /\ out.probes = 0
         /\ collection = out.before
         /\ points = out.points_before
    /\ (~out.before.exists /\ out.raised = "") =>
         /\ out.created = 1 /\ out.probes = 1
         /\ collection = [exists |-> TRUE, size |-> out.dim, distance |-> "Cosine"]
    /\ out.raised # "" => collection = out.before

\* a repeated call on a collection that was dropped, created again with
\* another vector size, and holds a point
C22_Witness ==
  /\ out.op = "ensure" /\ out.before.exists
  /\ out.before.size # VectorSize
  /\ out.dim = VectorSize
  /\ DOMAIN points # {}

----------------------------------------------------------------------------
(* Clear-then-re-ingest, and the queries that arrive meanwhile *)

\* the coroutines of the queries
Clients == {"a", "b"}

EventLoopAlwaysFree == TRUE

\* /reviews/ingest/sample, execute_live_ingest, run_job and the query tool
\* are coroutines of the one event loop, and clear_vector_store_async,
\* index_reviews_from_payload_async and query_async call the blocking
\* method without suspending: from the clear to the end of the re-ingest
\* no other coroutine runs.
EventLoopFree == pc["admin"].at = "idle"

\* a clear-then-re-ingest is entered.  before is the collection it found; a
\* "done" record of a client tells of a query served since the latest
\* clear-then-re-ingest began.
BeginReingest(payload) ==
  /\ pc["admin"] = Idle
  /\ pc' = [p \in Procs |->
              IF p = "admin"
              THEN [at |-> "clear", payload |-> payload, before |-> points]
              ELSE IF pc[p].at = "done" THEN Idle ELSE pc[p]]
  /\ out' = [op |-> "begin", raised |-> ""]
  /\ UNCHANGED <<points, utcoffset, collection, jobvars, dbvars>>

\* clear_collection, lines 122-131: the collection is deleted with its
\* points, or the delete fails and the failure is swallowed
ClearDeleteStep(delete_ok) ==
  /\ pc["admin"].at = "clear"
  /\ points' = clear_collection(points, delete_ok)
  /\ collection' = IF delete_ok THEN NoCollection ELSE collection
  /\ pc' = [pc EXCEPT !["admin"].at = "deleted"]
  /\ out' = [op |-> "delete", raised |-> ""]
  /\ UNCHANGED <<utcoffset, jobvars, dbvars>>

\* clear_collection, line 132: _initialize_collection; its exception ends
\* the clear-then-re-ingest
ClearCreateStep(embed_ok) ==
  /\ pc["admin"].at = "deleted"
  /\ \E r \in {_initialize_collection(collection, VectorSize, embed_ok)} :
       /\ collection' = r.collection
       /\ pc' = [pc EXCEPT !["admin"] =
                   IF r.raised = "" THEN [@ EXCEPT !.at = "cleared"] ELSE Idle]
       /\ out' = [op |-> "create", raised |-> r.raised]
  /\ UNCHANGED <<points, utcoffset, jobvars, dbvars>>

\* index_reviews_from_payload of the payload to re-ingest
IndexStep(adapter_ok) ==
  /\ pc["admin"].at = "cleared"
  /\ \E r \in {ingest_reviews_from_payload(points, pc["admin"].payload,
                                           utcoffset, adapter_ok)} :
       /\ points' = r.points
       /\ out' = [op |-> "reingest", raised |-> r.raised]
  /\ pc' = [pc EXCEPT !["admin"] = Idle]
  /\ UNCHANGED <<utcoffset, collection, jobvars, dbvars>>

\* a query is issued: its request waits for the event loop.  during tells
\* where the clear-then-re-ingest stood, before what the collection held
\* before it
IssueQuery(p, q) ==
  /\ pc[p] = Idle
  /\ pc' = [pc EXCEPT ![p] =
              [at |-> "issued", question |-> q, during |-> pc["admin"].at,
               before |-> IF pc["admin"].at = "idle" THEN points
                          ELSE pc["admin"].before]]
  /\ out' = [op |-> "issue", raised |-> ""]
  /\ UNCHANGED <<points, utcoffset, collection, jobvars, dbvars>>

\* the query runs: query_async, with the unfiltered search of the index;
\* the index raises when the collection does not exist
ServeQuery(p) ==
  /\ pc[p].at = "issued"
  /\ EventLoopFree
  /\ \E r \in {IF collection.exists
               THEN SearchQuery(points, NoFilterArgs(pc[p].question), utcoffset, TRUE)
               ELSE [op |-> "query", raised |-> "CollectionNotFound"]} :
       /\ pc' = [pc EXCEPT ![p] =
                   [at |-> "done", during |-> pc[p].during, before |-> pc[p].before,
                    raised |-> r.raised,
                    pids |-> IF r.raised = "" THEN {r.results[r.kept[i]] : i \in DOMAIN r.kept}
                             ELSE {}]]
       /\ out' = [op |-> "served", raised |-> r.raised, client |-> p]
  /\ UNCHANGED <<points, utcoffset, collection, jobvars, dbvars>>

PayloadsReingest == {ListPayload(<<RawRated(k, Num(50))>>) : k \in 1..2}

BeginSome == \E payload \in PayloadsReingest : BeginReingest(payload)

ClearDeleteSome == \E delete_ok \in BOOLEAN : ClearDeleteStep(delete_ok)

ClearCreateSome == \E embed_ok \in BOOLEAN : ClearCreateStep(embed_ok)

IndexSome == \E adapter_ok \in BOOLEAN : IndexStep(adapter_ok)

IssueSome == \E p \in Clients : IssueQuery(p, "good app")

ServeSome == \E p \in Clients : ServeQuery(p)

NextAtomic ==
  BeginSome \/ ClearDeleteSome \/ ClearCreateSome \/ IndexSome \/ IssueSome \/ ServeSome

SpecAtomic == Init /\ [][NextAtomic]_vars

\* C23, as claimed: a query issued while the collection is deleted or
\* empty in the middle of a clear-then-re-ingest can be answered there and
\* then, failing or finding no evidence.
C23_QueryObservesClearInProgress ==
  \A p \in Clients :
    (pc[p].at = "issued" /\ pc["admin"].at \in {"deleted", "cleared"})
      => ENABLED ServeQuery(p)

\* C23, amended: no query is answered while a clear-then-re-ingest is in
\* progress.  A query issued during one that found points and left points
\* behind returns evidence and does not fail, and no query returns a point
\* that is in the collection neither before nor after.
C23_QueryWaitsForReingest ==
  \A p \in Clients :
    (pc[p].at = "done" /\ pc["admin"].at = "idle") =>
      /\ pc[p].pids \subseteq DOMAIN points \cup DOMAIN pc[p].before
      /\ (/\ pc[p].during # "idle"
          /\ pc[p].before # NoPoints
          /\ points # NoPoints
          /\ collection.exists)
           => (pc[p].raised = "" /\ pc[p].pids # {})

C23_Witness ==
  \E p \in Clients :
    /\ pc[p].at = "done" /\ pc["admin"].at = "idle"
    /\ pc[p].during \in {"deleted", "cleared"}
    /\ pc[p].before # NoPoints
    /\ pc[p].pids # {}
    /\ pc[p].pids \subseteq DOMAIN points

----------------------------------------------------------------------------
(* What execute_live_ingest leaves in the collection *)

\* the points of the payload the last execute reports as ingested: the
\* fetched reviews followed by the sample, or the sample alone
ReportedPoints ==
  LET c == collect_reviews_from_store_apis(out.play, out.apple, max_pages_default, TRUE)
      payload == IF out.status = "ok"
                 THEN ListPayload(c.reviews \o load_sample_reviews_payload)
                 ELSE ListPayload(load_sample_reviews_payload)
  IN  ingest_reviews_from_payload(NoPoints, payload, utcoffset, TRUE).points

\* C24: when execute_live_ingest returns a result, the collection holds
\* exactly the points of the payload the result reports and none indexed
\* before the call; when it raises with the fallback disabled, the points
\* indexed before the call are still in the collection.
C24_CollectionAfterExecute ==
  out.op = "execute" =>
    /\ out.raised = "" => points = ReportedPoints
    /\ (out.raised # "" /\ ~out.fallback_to_sample) =>
         \A k \in DOMAIN out.before :
           k \in DOMAIN points /\ points[k] = out.before[k]

----------------------------------------------------------------------------
(* LiveIngestBackgroundService: the job registry and run_job *)

\* max_jobs of the constructor (200 in the program), and the caps on the
\* jobs created and on the clock
max_jobs == 2

MaxCreated == 3

MaxClock == 1

\* "result": None
NoResult == [some |-> FALSE, status |-> ""]

\* the background task of job n
TaskOf(n) == ToString(n)

Tasks == DOMAIN pc \ Procs

\* run_job does not suspend from its first statement to its last: while
\* one runs, no request is handled and no other task starts
NoJobRunning == \A t \in Tasks : pc[t].at # "running"

\* time.time() as create_job reads it: the clock does not go back, and two
\* jobs can be created at the same time.  The updates of run_job are dated
\* with the clock as it stands.
Now == {t \in {clock, clock + 1} : t <= MaxClock}

\* the position of a job in sorted(items, key=created_at): the sort is
\* stable and the dict keeps the order of creation
Rank(js, j) ==
  Cardinality({k \in DOMAIN js :
                 \/ js[k].created_at < js[j].created_at
                 \/ (js[k].created_at = js[j].created_at /\ k < j)})

PruneNewest(js) ==
  LET overflow == Cardinality(DOMAIN js) - max_jobs
      keep == {j \in DOMAIN js : Rank(js, j) < max_jobs}
  IN  IF overflow <= 0 THEN js ELSE [j \in keep |-> js[j]]

_prune_jobs(js) ==
  LET overflow == Cardinality(DOMAIN js) - max_jobs
      keep == {j \in DOMAIN js : Rank(js, j) >= overflow}
  IN  IF overflow <= 0 THEN js ELSE [j \in keep |-> js[j]]

\* the registry after create_job; job_id is a fresh uuid
create_job(js, job_id, max_pages, fallback_to_sample, now) ==
  _prune_jobs(
    [j \in DOMAIN js \cup {job_id} |->
       IF j = job_id
       THEN [job_id |-> job_id, status |-> "queued", max_pages |-> max_pages,
             fallback_to_sample |-> fallback_to_sample,
             created_at |-> now, updated_at |-> now,
             result |-> NoResult, error |-> NONE]
       ELSE js[j]])

_update_job(js, job_id, updates, now) ==
  IF job_id \notin DOMAIN js THEN js
  ELSE [js EXCEPT ![job_id] =
          [f \in DOMAIN @ |->
             IF f = "updated_at" THEN now
             ELSE IF f \in DOMAIN updates THEN updates[f] ELSE @[f]]]

RunJobUncaught(r) ==
  IF r.raised = ""
  THEN [raised |-> "",
        updates |-> [status |-> r.status, error |-> NONE,
                     result |-> [some |-> TRUE, status |-> r.status]]]
  ELSE [raised |-> r.raised, updates |-> [j \in {} |-> 0]]

\* run_job after execute_live_ingest gave r: what it raises and the update
\* it makes
run_job(r) ==
  IF r.raised = ""
  THEN [raised |-> "",
        updates |-> [status |-> r.status, error |-> NONE,
                     result |-> [some |-> TRUE, status |-> r.status]]]
  ELSE [raised |-> "",
        updates |-> [status |-> "failed", error |-> r.raised, result |-> NoResult]]

\* POST /reviews/ingest/live with run_in_background: create_job, and
\* run_job is scheduled for after the response
CreateJob(max_pages, fallback_to_sample, now) ==
  /\ NoJobRunning
  /\ Cardinality(Tasks) < MaxCreated
  /\ \E n \in {Cardinality(Tasks) + 1} :
       /\ jobs' = create_job(jobs, n, max_pages, fallback_to_sample, now)
       /\ pc' = [t \in DOMAIN pc \cup {TaskOf(n)} |->
                   IF t = TaskOf(n)
                   THEN [at |-> "scheduled", job_id |-> n, max_pages |-> max_pages,
                         fallback_to_sample |-> fallback_to_sample]
                   ELSE pc[t]]
       /\ out' = [op |-> "create_job", raised |-> "", job_id |-> n, before |-> jobs,
                  created_at |-> now]
  /\ clock' = now
  /\ UNCHANGED <<points, utcoffset, collection, dbvars>>

\* run_job, line 102
RunJobStart(t, now) ==
  /\ NoJobRunning
  /\ pc[t].at = "scheduled"
  /\ jobs' = _update_job(jobs, pc[t].job_id, [status |-> "running"], now)
  /\ pc' = [pc EXCEPT ![t].at = "running"]
  /\ out' = [op |-> "run_job_start", raised |-> "", job_id |-> pc[t].job_id,
             before |-> jobs]
  /\ clock' = now
  /\ UNCHANGED <<points, utcoffset, collection, dbvars>>

\* run_job, lines 103-109
RunJobFinish(t, play, clear, live_ok, fb_ok, now) ==
  /\ pc[t].at = "running"
  /\ \E cleared \in {clear_collection(points, clear = "ok")} :
     \E c \in {collect_reviews_from_store_apis(play, <<EmptyPage>>, pc[t].max_pages, TRUE)} :
     \E live \in {ingest_reviews_from_payload(
                    cleared, ListPayload(c.reviews \o load_sample_reviews_payload),
                    utcoffset, live_ok)} :
     \E fb \in {ingest_reviews_from_payload(
                  cleared, ListPayload(load_sample_reviews_payload), utcoffset, fb_ok)} :
     \E r \in {execute_live_ingest(cleared, clear, c, live, fb, pc[t].fallback_to_sample)} :
     \E u \in {run_job(r)} :
       /\ points' = r.points
       /\ jobs' = _update_job(jobs, pc[t].job_id, u.updates, now)
       /\ out' = [op |-> "run_job", raised |-> u.raised, job_id |-> pc[t].job_id,
                  before |-> jobs, executed |-> r.raised]
  /\ pc' = [pc EXCEPT ![t].at = "finished"]
  /\ clock' = now
  /\ UNCHANGED <<utcoffset, collection, dbvars>>

\* GET /reviews/ingest/live/jobs/{job_id}
GetJob(job_id) ==
  /\ NoJobRunning
  /\ out' = [op |-> "get_job", raised |-> IF job_id \in DOMAIN jobs THEN "" ELSE "404",
             job_id |-> job_id]
  /\ UNCHANGED <<points, utcoffset, collection, pc, jobvars, dbvars>>

CreateSome ==
  \E fallback_to_sample \in BOOLEAN, now \in Now :
    CreateJob(max_pages_default, fallback_to_sample, now)

RunJobStartSome == \E t \in Tasks : RunJobStart(t, clock)

RunJobFinishSome ==
  \E t \in Tasks, play \in {<<Page("ok", 1, FALSE)>>, <<EmptyPage>>} :
    RunJobFinish(t, play, "ok", TRUE, TRUE, clock)

\* the oldest job, and the latest one that can be created
GetJobSome == \E job_id \in {1, MaxCreated} : GetJob(job_id)

NextJobs == CreateSome \/ RunJobStartSome \/ RunJobFinishSome \/ GetJobSome

SpecJobs == Init /\ [][NextJobs]_vars

Terminal == {"ok", "fallback_to_sample", "failed"}

\* C25: the status of a job that stays in the registry starts as queued
\* and changes only from queued to running and from running to ok,
\* fallback_to_sample or failed; run_job raises nothing; a failed job has
\* an error and no result, an ok or fallback_to_sample job a result and
\* no error, and a job that is not terminal has neither.
C25_JobStatusLifecycle ==
  [][/\ \A j \in DOMAIN jobs' \ DOMAIN jobs : jobs'[j].status = "queued"
     /\ \A j \in DOMAIN jobs \cap DOMAIN jobs' :
          jobs'[j].status # jobs[j].status =>
            \/ jobs[j].status = "queued" /\ jobs'[j].status = "running"
            \/ jobs[j].status = "running" /\ jobs'[j].status \in Terminal
     /\ out'.op = "run_job" => out'.raised = ""
     /\ \A j \in DOMAIN jobs' :
          /\ jobs'[j].status \in {"queued", "running"} \cup Terminal
          /\ jobs'[j].status = "failed"
               <=> (jobs'[j].error # NONE /\ ~jobs'[j].result.some)
          /\ jobs'[j].status \in {"ok", "fallback_to_sample"}
               <=> (jobs'[j].result.some /\ jobs'[j].error = NONE)
          /\ jobs'[j].result.some => jobs'[j].result.status = jobs'[j].status
    ]_vars

C25_Witness ==
  /\ out.op = "run_job" /\ out.executed # ""
  /\ out.job_id \in DOMAIN jobs
  /\ jobs[out.job_id].status = "failed"
  /\ \E j \in DOMAIN jobs : jobs[j].status = "fallback_to_sample"

\* C26: after create_job the registry holds at most max_jobs jobs, the new
\* one among them as created; every job it dropped was created no later
\* than every job it kept, and the jobs kept are untouched.  An update of
\* run_job addressed to a job that is not in the registry leaves the
\* registry as it was.
C26_RegistryIsBounded ==
  /\ out.op = "create_job" =>
       /\ Cardinality(DOMAIN jobs) <= max_jobs
       /\ out.job_id \in DOMAIN jobs
       /\ jobs[out.job_id].status = "queued"
       /\ jobs[out.job_id].created_at = out.created_at
       /\ \A e \in DOMAIN out.before \ DOMAIN jobs, k \in DOMAIN jobs :
            out.before[e].created_at <= jobs[k].created_at
       /\ \A k \in DOMAIN jobs \ {out.job_id} :
            k \in DOMAIN out.before /\ jobs[k] = out.before[k]
       /\ Cardinality(DOMAIN out.before) < max_jobs
            => DOMAIN out.before \subseteq DOMAIN jobs
  /\ (out.op \in {"run_job_start", "run_job"} /\ out.job_id \notin DOMAIN out.before)
       => jobs = out.before

C26_Witness ==
  /\ out.op = "run_job"
  /\ out.job_id \notin DOMAIN jobs
  /\ Cardinality(DOMAIN jobs) = max_jobs
  /\ \E k \in DOMAIN jobs : jobs[k].status = "queued"

----------------------------------------------------------------------------
(* DatabaseSingleton: get_pool and close, step by step *)

\* the pools create_pool may return before the model stops creating
MaxPools == 2

SecondCheckSkipped(s) == TRUE

\* `if cls._pool is None` under the lock (line 32)
SecondCheck(s) == s.pool = NoPool

\* what a call gives back: `return cls._pool` (line 54), or an exception
Return(p, op, raised, pool) ==
  [op |-> op, caller |-> p, raised |-> raised,
   pool |-> IF raised = "" THEN pool ELSE NoPool]

\* get_pool up to its first suspension: the pool is returned when set
\* (line 30); otherwise the lock is taken when free, and create_pool is
\* awaited, or the caller waits for the lock
GetPoolCall(p) ==
  /\ pc[p] = Idle
  /\ IF singleton.pool # NoPool
     THEN /\ UNCHANGED <<pc, singleton>>
          /\ out' = Return(p, "get_pool", "", singleton.pool)
     ELSE IF singleton.lock = ""
     THEN /\ singleton.created < MaxPools
          /\ singleton' = [singleton EXCEPT !.lock = p]
          /\ pc' = [pc EXCEPT ![p] = [at |-> "creating"]]
          /\ out' = [op |-> "create_pool", caller |-> p, raised |-> ""]
     ELSE /\ pc' = [pc EXCEPT ![p] = [at |-> "waiting", for |-> "get_pool"]]
          /\ out' = [op |-> "wait", caller |-> p, raised |-> ""]
          /\ UNCHANGED singleton
  /\ UNCHANGED <<points, utcoffset, collection, jobvars, service, conversations>>

\* the lock is granted to a waiting get_pool
GetPoolLocked(p) ==
  /\ pc[p] = [at |-> "waiting", for |-> "get_pool"]
  /\ singleton.lock = ""
  /\ IF SecondCheck(singleton)
     THEN /\ singleton.created < MaxPools
          /\ singleton' = [singleton EXCEPT !.lock = p]
          /\ pc' = [pc EXCEPT ![p] = [at |-> "creating"]]
          /\ out' = [op |-> "create_pool", caller |-> p, raised |-> ""]
     ELSE /\ pc' = [pc EXCEPT ![p] = Idle]
          /\ out' = Return(p, "get_pool", "", singleton.pool)
          /\ UNCHANGED singleton
  /\ UNCHANGED <<points, utcoffset, collection, jobvars, service, conversations>>

\* asyncpg.create_pool returns or raises (lines 38-51)
CreatePoolDone(p, ok) ==
  /\ pc[p].at = "creating"
  /\ singleton' =
       IF ok
       THEN [pool |-> singleton.created + 1, initialized |-> TRUE, lock |-> "",
             created |-> singleton.created + 1]
       ELSE [singleton EXCEPT !.lock = ""]
  /\ pc' = [pc EXCEPT ![p] = Idle]
  /\ out' = Return(p, "get_pool", IF ok THEN "" ELSE "CreateError", singleton'.pool)
  /\ UNCHANGED <<points, utcoffset, collection, jobvars, service, conversations>>

\* close up to its first suspension (lines 59-62)
CloseCall(p) ==
  /\ pc[p] = Idle
  /\ IF singleton.pool = NoPool
     THEN /\ UNCHANGED <<pc, singleton>>
          /\ out' = Return(p, "close", "", NoPool)
     ELSE IF singleton.lock = ""
     THEN /\ singleton' = [singleton EXCEPT !.lock = p]
          /\ pc' = [pc EXCEPT ![p] = [at |-> "closing"]]
          /\ out' = [op |-> "pool_close", caller |-> p, raised |-> ""]
     ELSE /\ pc' = [pc EXCEPT ![p] = [at |-> "waiting", for |-> "close"]]
          /\ out' = [op |-> "wait", caller |-> p, raised |-> ""]
          /\ UNCHANGED singleton
  /\ UNCHANGED <<points, utcoffset, collection, jobvars, service, conversations>>

\* the lock is granted to a waiting close
CloseLocked(p) ==
  /\ pc[p] = [at |-> "waiting", for |-> "close"]
  /\ singleton.lock = ""
  /\ IF singleton.pool # NoPool
     THEN /\ singleton' = [singleton EXCEPT !.lock = p]
          /\ pc' = [pc EXCEPT ![p] = [at |-> "closing"]]
          /\ out' = [op |-> "pool_close", caller |-> p, raised |-> ""]
     ELSE /\ pc' = [pc EXCEPT ![p] = Idle]
          /\ out' = Return(p, "close", "", NoPool)
          /\ UNCHANGED singleton
  /\ UNCHANGED <<points, utcoffset, collection, jobvars, service, conversations>>

\* cls._pool.close() returns or raises (lines 62-64)
ClosePoolDone(p, ok) ==
  /\ pc[p].at = "closing"
  /\ singleton' =
       IF ok
       THEN [singleton EXCEPT !.pool = NoPool, !.initialized = FALSE, !.lock = ""]
       ELSE [singleton EXCEPT !.lock = ""]
  /\ pc' = [pc EXCEPT ![p] = Idle]
  /\ out' = Return(p, "close", IF ok THEN "" ELSE "CloseError", NoPool)
  /\ UNCHANGED <<points, utcoffset, collection, jobvars, service, conversations>>

GetPoolSome == \E p \in Procs : GetPoolCall(p)

GetPoolLockedSome == \E p \in Procs : GetPoolLocked(p)

CreatePoolSome == \E p \in Procs, ok \in BOOLEAN : CreatePoolDone(p, ok)

CloseSome == \E p \in Procs : CloseCall(p)

CloseLockedSome == \E p \in Procs : CloseLocked(p)

ClosePoolSome == \E p \in Procs, ok \in BOOLEAN : ClosePoolDone(p, ok)

NextPool ==
  \/ GetPoolSome \/ GetPoolLockedSome \/ CreatePoolSome
  \/ CloseSome \/ CloseLockedSome \/ ClosePoolSome

SpecPool == Init /\ [][NextPool]_vars

InFlight(at) == {p \in Procs : pc[p].at = at}

\* C28: create_pool is awaited by one caller at a time and only while no
\* pool is set, so a pool that is set is never replaced; a get_pool that
\* returns gives the pool the singleton holds; a get_pool that raises
\* leaves the pool unset; when close returns the pool is unset and
\* is_initialized is false.
C28_OnePoolForAllCallers ==
  /\ Cardinality(InFlight("creating") \cup InFlight("closing")) <= 1
  /\ InFlight("creating") # {} => singleton.pool = NoPool
  /\ singleton.pool = NoPool \/ singleton.pool = singleton.created
  /\ singleton.initialized <=> singleton.pool # NoPool
  /\ (out.op = "get_pool" /\ out.raised = "")
       => (out.pool # NoPool /\ out.pool = singleton.pool)
  /\ (out.op = "get_pool" /\ out.raised # "")
       => (singleton.pool = NoPool /\ ~singleton.initialized)
  /\ (out.op = "close" /\ out.raised = "")
       => (singleton.pool = NoPool /\ ~singleton.initialized)

\* a caller that waited for the lock gets the pool another caller created
C28_Witness ==
  /\ out.op = "get_pool" /\ out.raised = ""
  /\ singleton.created = 1 /\ out.pool = 1
  /\ \E p \in Procs \ {out.caller} :
       pc[p] = [at |-> "waiting", for |-> "get_pool"]

----------------------------------------------------------------------------
(* PostgresDBService *)

\* a row of conversation_history
Message(conversation_id, role, content) ==
  [conversation_id |-> conversation_id, role |-> role, content |-> content]

\* DatabaseSingleton.get_pool called with no other call in progress
get_pool(s, pool_ok) ==
  IF s.pool # NoPool THEN [raised |-> "", singleton |-> s]
  ELSE IF pool_ok
  THEN [raised |-> "",
        singleton |-> [s EXCEPT !.pool = s.created + 1, !.initialized = TRUE,
                                !.created = s.created + 1]]
  ELSE [raised |-> "CreateError", singleton |-> s]

InitializeFlagFirst(svc, s, pool_ok, conversation_ok, session_ok) ==
  LET g == get_pool(s, pool_ok)
  IN  IF svc.initialized THEN [service |-> svc, singleton |-> s, raised |-> ""]
      ELSE [service |-> [svc EXCEPT !.initialized = g.raised = ""],
            singleton |-> g.singleton, raised |-> ""]

\* PostgresDBService.initialize: the pool, then the two tables; an
\* exception of any of the three is logged and not raised
initialize(svc, s, pool_ok, conversation_ok, session_ok) ==
  LET g == get_pool(s, pool_ok)
  IN  IF svc.initialized THEN [service |-> svc, singleton |-> s, raised |-> ""]
      ELSE [service |-> [svc EXCEPT !.initialized =
                           g.raised = "" /\ conversation_ok /\ session_ok],
            singleton |-> g.singleton, raised |-> ""]

\* PostgresDBService.append_conversation_message: the result dict and the
\* table afterwards.  db_ok is whether the insert of the repository works.
append_conversation_message(svc, rows, message, db_ok) ==
  IF ~svc.initialized
  THEN [raised |-> "", success |-> FALSE, error |-> "Service not initialized",
        rows |-> rows, inserts |-> 0]
  ELSE IF db_ok
  THEN [raised |-> "", success |-> TRUE, error |-> "",
        rows |-> Append(rows, message), inserts |-> 1]
  ELSE [raised |-> "", success |-> FALSE, error |-> "InsertError",
        rows |-> rows, inserts |-> 1]

\* the rows the model lets the table grow to
MaxRows == 2

ServiceInitialize(pool_ok, conversation_ok, session_ok) ==
  /\ singleton.created < MaxPools
  /\ \E r \in {initialize(service, singleton, pool_ok, conversation_ok, session_ok)} :
       /\ service' = r.service
       /\ singleton' = r.singleton
       /\ out' = [op |-> "initialize", raised |-> r.raised,
                  was_initialized |-> service.initialized,
                  pool_ok |-> pool_ok \/ singleton.pool # NoPool,
                  tables_ok |-> conversation_ok /\ session_ok,
                  before |-> singleton]
  /\ UNCHANGED <<points, utcoffset, collection, pc, jobvars, conversations>>

ServiceAppend(conversation_id, role, content, db_ok) ==
  /\ Len(conversations) < MaxRows
  /\ \E r \in {append_conversation_message(
                 service, conversations,
                 Message(conversation_id, role, content), db_ok)} :
       /\ conversations' = r.rows
       /\ out' = [op |-> "append", raised |-> r.raised, success |-> r.success,
                  error |-> r.error, inserts |-> r.inserts,
                  was_initialized |-> service.initialized, db_ok |-> db_ok,
                  before |-> conversations,
                  message |-> Message(conversation_id, role, content)]
  /\ UNCHANGED <<points, utcoffset, collection, pc, jobvars, singleton, service>>

\* PostgresDBService.close: DatabaseSingleton.close, then the flag; an
\* exception of the pool's close is not caught
ServiceClose(close_ok) ==
  /\ IF ~service.initialized \/ (singleton.pool # NoPool /\ ~close_ok)
     THEN UNCHANGED <<singleton, service>>
     ELSE /\ singleton' = [singleton EXCEPT !.pool = NoPool, !.initialized = FALSE]
          /\ service' = [service EXCEPT !.initialized = FALSE]
  /\ out' = [op |-> "service_close",
             raised |-> IF service.initialized /\ singleton.pool # NoPool /\ ~close_ok
                        THEN "CloseError" ELSE "",
             was_initialized |-> service.initialized]
  /\ UNCHANGED <<points, utcoffset, collection, pc, jobvars, conversations>>

InitializeSome ==
  \E pool_ok \in BOOLEAN, conversation_ok \in BOOLEAN, session_ok \in BOOLEAN :
    ServiceInitialize(pool_ok, conversation_ok, session_ok)

AppendSome ==
  \E conversation_id \in {"t1", "t2"}, role \in {"user", "assistant"},
     db_ok \in BOOLEAN :
    ServiceAppend(conversation_id, role, "Hi", db_ok)

ServiceCloseSome == \E close_ok \in BOOLEAN : ServiceClose(close_ok)

NextService == InitializeSome \/ AppendSome \/ ServiceCloseSome

SpecService == Init /\ [][NextService]_vars

\* C30: append_conversation_message raises nothing.  On a service that is
\* not initialized it reports success false without an insert; when the
\* insert fails it reports success false with the error, and the table is
\* as before; otherwise the row is appended.  initialize raises nothing,
\* leaves an initialized service and its pool as they are, and sets the
\* flag exactly when the pool and both tables were obtained.
C30_ServiceNeverRaises ==
  /\ out.op = "append" =>
       /\ out.raised = ""
       /\ ~out.was_initialized =>
            /\ ~out.success /\ out.error = "Service not initialized"
            /\ out.inserts = 0 /\ conversations = out.before
       /\ (out.was_initialized /\ ~out.db_ok) =>
            /\ ~out.success /\ out.error \notin {"", "Service not initialized"}
            /\ conversations = out.before
       /\ (out.was_initialized /\ out.db_ok) =>
            /\ out.success /\ conversations = Append(out.before, out.message)
  /\ out.op = "initialize" =>
       /\ out.raised = ""
       /\ out.was_initialized => (service.initialized /\ singleton = out.before)
       /\ ~out.was_initialized =>
            (service.initialized <=> (out.pool_ok /\ out.tables_ok))

C30_Witness ==
  /\ out.op = "append" /\ out.was_initialized /\ ~out.db_ok
  /\ Len(conversations) = 1

----------------------------------------------------------------------------
(* POST /chat/stream *)

\* the events the model lets the agent stream before it ends or raises
MaxEvents == 2

\* f"liquide-thread-{uuid.uuid4()}"
GeneratedThread == "liquide-thread-1"

\* what astream_events gives next: an event of LangGraph, with the text of
\* the chunk for on_chat_model_stream, or an exception
AgentItem(event, name, content) == [event |-> event, name |-> name, content |-> content]

AgentItems ==
  {AgentItem("on_tool_start", "QueryReviewRAG", ""),
   AgentItem("on_tool_end", "QueryReviewRAG", ""),
   AgentItem("on_chat_model_stream", "", "Hi"),
   AgentItem("on_chat_model_stream", "", ""),
   AgentItem("on_custom_event", "say_message", ""),
   AgentItem("on_chain_start", "", ""),
   AgentItem("raise", "", "")}

Event(type, thread_id) == [kind |-> "event", type |-> type, thread_id |-> thread_id]

AppendCall(role, saved) == [kind |-> "append", role |-> role, saved |-> saved]

\* the event generate_stream yields for an item of the agent, if any
Yields(item, conversation_id) ==
  CASE item.event = "on_tool_start" -> <<Event("tool_start", conversation_id)>>
    [] item.event = "on_tool_end" -> <<Event("tool_end", conversation_id)>>
    [] item.event = "on_chat_model_stream" /\ item.content # "" ->
         <<Event("token", conversation_id)>>
    [] item.event = "on_custom_event" /\ item.name = "say_message" ->
         <<Event("say", conversation_id)>>
    [] OTHER -> <<>>

\* the `async for` of generate_stream from the i-th item on: the events
\* yielded, the pieces of assistant_response, and whether the agent raised
RECURSIVE StreamLoop(_, _, _, _, _)
StreamLoop(script, i, conversation_id, response, log) ==
  IF i > Len(script) THEN [raised |-> "", response |-> response, log |-> log]
  ELSE IF script[i].event = "raise"
  THEN [raised |-> "AgentError", response |-> response, log |-> log]
  ELSE StreamLoop(script, i + 1, conversation_id,
                  IF script[i].event = "on_chat_model_stream" /\ script[i].content # ""
                  THEN Append(response, script[i].content) ELSE response,
                  log \o Yields(script[i], conversation_id))

StreamPersistingAlways(svc, rows, conversation_id, script, db_ok) ==
  LET s == StreamLoop(script, 1, conversation_id, <<>>,
                      <<Event("session", conversation_id)>>)
      a == append_conversation_message(
             svc, rows, Message(conversation_id, "assistant", s.response), db_ok)
  IN  IF s.response = <<>>
      THEN [rows |-> rows,
            log |-> Append(s.log, IF s.raised # "" THEN Event("error", NONE)
                                  ELSE Event("end_of_response", conversation_id))]
      ELSE [rows |-> a.rows,
            log |-> s.log \o <<AppendCall("assistant", a.success),
                               IF s.raised # "" THEN Event("error", NONE)
                               ELSE Event("end_of_response", conversation_id)>>]

\* generate_stream: the session event, the events of the agent, then the
\* append of the assistant message and end_of_response, or the error event
generate_stream(svc, rows, conversation_id, script, db_ok) ==
  LET s == StreamLoop(script, 1, conversation_id, <<>>,
                      <<Event("session", conversation_id)>>)
      a == append_conversation_message(
             svc, rows, Message(conversation_id, "assistant", s.response), db_ok)
  IN  IF s.raised # ""
      THEN [rows |-> rows, log |-> Append(s.log, Event("error", NONE))]
      ELSE IF s.response = <<>>
      THEN [rows |-> rows,
            log |-> Append(s.log, Event("end_of_response", conversation_id))]
      ELSE [rows |-> a.rows,
            log |-> s.log \o <<AppendCall("assistant", a.success),
                               Event("end_of_response", conversation_id)>>]

\* chat_stream.  content is that of the last message when it is a human
\* message ("" otherwise); log lists, in order, the appends made and the
\* events sent.  A request is taken once the response before it is sent.
ChatStream(content, thread_id, script, input_ok, user_db_ok, assistant_db_ok) ==
  /\ out.op # "chat_stream"
  /\ Len(conversations) = 0
  /\ \E conversation_id \in {IF ~Truthy(thread_id) \/ Strip(thread_id) = ""
                             THEN GeneratedThread ELSE thread_id} :
     \E u \in {append_conversation_message(
                 service, conversations,
                 Message(conversation_id, "user", <<content>>), user_db_ok)} :
     \E rows \in {IF content # "" THEN u.rows ELSE conversations} :
     \E g \in {generate_stream(service, rows, conversation_id, script, assistant_db_ok)} :
       IF ~input_ok
       THEN /\ out' = [op |-> "chat_stream", raised |-> "HTTPException", log |-> <<>>]
            /\ UNCHANGED conversations
       ELSE /\ conversations' = g.rows
            /\ out' = [op |-> "chat_stream", raised |-> "",
                       content |-> content, conversation_id |-> conversation_id,
                       thread_id |-> thread_id, script |-> script,
                       log |-> (IF content # ""
                                THEN <<AppendCall("user", u.success)>> ELSE <<>>)
                               \o g.log]
  /\ UNCHANGED <<points, utcoffset, collection, pc, jobvars, singleton, service>>

Scripts == UNION {[1..n -> AgentItems] : n \in 0..MaxEvents}

ChatSome ==
  \E content \in {"", "hello"}, thread_id \in {NONE, " ", "t1"}, script \in Scripts,
     user_db_ok \in BOOLEAN, assistant_db_ok \in BOOLEAN :
    ChatStream(content, thread_id, script, TRUE, user_db_ok, assistant_db_ok)

ChatBadInput == ChatStream("", "t1", <<>>, FALSE, TRUE, TRUE)

\* the response has been sent to the end; the model empties the table
\* before the next request
ResponseSent ==
  /\ out.op = "chat_stream"
  /\ conversations' = <<>>
  /\ out' = [op |-> "sent", raised |-> ""]
  /\ UNCHANGED <<points, utcoffset, collection, pc, jobvars, singleton, service>>

NextChat == ChatSome \/ ChatBadInput \/ InitializeSome \/ ServiceCloseSome \/ ResponseSent

SpecChat == Init /\ [][NextChat]_vars

EventsOf(log) == SelectSeq(log, LAMBDA e : e.kind = "event")

Saved(role) == SelectSeq(conversations, LAMBDA m : m.role = role)

AgentRaised(script) == \E i \in DOMAIN script : script[i].event = "raise"

\* the pieces of text the agent streamed before it ended or raised
RECURSIVE Streamed(_, _)
Streamed(script, i) ==
  IF i > Len(script) \/ script[i].event = "raise" THEN <<>>
  ELSE (IF script[i].event = "on_chat_model_stream" /\ script[i].content # ""
        THEN <<script[i].content>> ELSE <<>>) \o Streamed(script, i + 1)

\* C27: in the log of a /chat/stream response the append of the user
\* message, made when the last message is a human message with content,
\* comes first and no other append of it follows; the first event is the
\* session event with the thread id of the conversation; when the agent
\* ends, the last entry is the one end_of_response, preceded by the append
\* of the assistant message exactly when text was streamed; when the agent
\* raises, the last entry is an error event, there is no end_of_response
\* and no assistant message is appended or stored.
C27_StreamIsOrdered ==
  (out.op = "chat_stream" /\ out.raised = "") =>
    LET log == out.log
        events == EventsOf(log)
        n == Len(log)
        appends(role) == {i \in DOMAIN log : log[i].kind = "append" /\ log[i].role = role}
        ends == {i \in DOMAIN log : log[i].kind = "event" /\ log[i].type = "end_of_response"}
    IN  /\ appends("user") = (IF out.content # "" THEN {1} ELSE {})
        /\ Len(Saved("user")) = (IF out.content # "" /\ log[1].saved THEN 1 ELSE 0)
        /\ events[1] = Event("session", out.conversation_id)
        /\ out.conversation_id # "" /\ out.conversation_id # NONE
        /\ (Truthy(out.thread_id) /\ Strip(out.thread_id) # "")
             => out.conversation_id = out.thread_id
        /\ \A i \in 2..Len(events) : events[i].type # "session"
        /\ ~AgentRaised(out.script) =>
             /\ ends = {n}
             /\ appends("assistant") =
                  (IF Streamed(out.script, 1) # <<>> THEN {n - 1} ELSE {})
             /\ \A m \in DOMAIN Saved("assistant") :
                  Saved("assistant")[m].content = Streamed(out.script, 1)
        /\ AgentRaised(out.script) =>
             /\ log[n].kind = "event" /\ log[n].type = "error"
             /\ ends = {}
             /\ appends("assistant") = {}
             /\ Saved("assistant") = <<>>

C27_Witness ==
  /\ out.op = "chat_stream" /\ out.raised = ""
  /\ AgentRaised(out.script) /\ Streamed(out.script, 1) # <<>>
  /\ Len(Saved("user")) = 1

----------------------------------------------------------------------------
(* PostgresSessionSyncService.sync_session_field *)

\* the `for attempt in range(max_retries + 1)` loop from attempt on.
\* upserts[i] tells whether the i-th call of upsert_session_data works
\* (calls beyond the list fail); sleeps counts the back-off waits.
RECURSIVE SyncLoopGivingUpEarly(_, _, _, _)
SyncLoopGivingUpEarly(upserts, attempt, max_retries, sleeps) ==
  IF attempt >= max_retries
  THEN [raised |-> "", result |-> FALSE, attempts |-> attempt, sleeps |-> sleeps]
  ELSE IF attempt + 1 <= Len(upserts) /\ upserts[attempt + 1]
  THEN [raised |-> "", result |-> TRUE, attempts |-> attempt + 1, sleeps |-> sleeps]
  ELSE SyncLoopGivingUpEarly(upserts, attempt + 1, max_retries, sleeps + 1)

RECURSIVE SyncLoop(_, _, _, _)
SyncLoop(upserts, attempt, max_retries, sleeps) ==
  IF attempt >= max_retries + 1
  THEN [raised |-> "", result |-> FALSE, attempts |-> attempt, sleeps |-> sleeps]
  ELSE IF attempt + 1 <= Len(upserts) /\ upserts[attempt + 1]
  THEN [raised |-> "", result |-> TRUE, attempts |-> attempt + 1, sleeps |-> sleeps]
  ELSE IF attempt < max_retries
  THEN SyncLoop(upserts, attempt + 1, max_retries, sleeps + 1)
  ELSE [raised |-> "", result |-> FALSE, attempts |-> attempt + 1, sleeps |-> sleeps]

sync_session_field(enabled, upserts, max_retries) ==
  IF ~enabled
  THEN [raised |-> "", result |-> FALSE, attempts |-> 0, sleeps |-> 0]
  ELSE SyncLoop(upserts, 0, max_retries, 0)

SyncSessionField(enabled, upserts, max_retries) ==
  /\ \E r \in {sync_session_field(enabled, upserts, max_retries)} :
       out' = [op |-> "sync", raised |-> r.raised, result |-> r.result,
               attempts |-> r.attempts, sleeps |-> r.sleeps,
               enabled |-> enabled, upserts |-> upserts, max_retries |-> max_retries]
  /\ UNCHANGED <<points, utcoffset, collection, pc, jobvars, dbvars>>

\* the largest max_retries the model passes (the default is 2)
MaxRetries == 3

UpsertScripts == UNION {[1..n -> BOOLEAN] : n \in 0..MaxRetries + 2}

SyncSome ==
  \E enabled \in BOOLEAN, upserts \in UpsertScripts, max_retries \in 0..MaxRetries :
    SyncSessionField(enabled, upserts, max_retries)

NextSync == SyncSome

SpecSync == Init /\ [][NextSync]_vars

\* whether the i-th call of upsert_session_data works
Works(i) == i <= Len(out.upserts) /\ out.upserts[i]

\* C29: sync_session_field returns without raising after at most
\* max_retries + 1 attempts.  It returns true exactly when one of those
\* attempts works, and the attempt that works is the last one made; it
\* returns false after max_retries + 1 failed attempts; with the sync
\* disabled it returns false without an attempt.
C29_SyncIsBounded ==
  out.op = "sync" =>
    /\ out.raised = ""
    /\ out.attempts <= out.max_retries + 1
    /\ ~out.enabled => (~out.result /\ out.attempts = 0)
    /\ out.enabled =>
         /\ out.result <=> \E i \in 1..(out.max_retries + 1) : Works(i)
         /\ out.result =>
              (Works(out.attempts) /\ \A i \in 1..(out.attempts - 1) : ~Works(i))
         /\ ~out.result => out.attempts = out.max_retries + 1
         /\ out.sleeps = (IF out.result THEN out.attempts - 1 ELSE out.max_retries)

\* a retry that succeeds on the last attempt allowed
C29_Witness ==
  /\ out.op = "sync" /\ out.enabled /\ out.result
  /\ out.max_retries = 2 /\ out.attempts = 3
  /\ Len(out.upserts) > 3

====
